---- MODULE Spec2Model ----
(***************************************************************************)
(* Model of the autoscaler core of cloud-autoscaler: the circuit breaker   *)
(* with its state-change callback, the decision engine, the simulator      *)
(* scaler, the per-cluster pipeline, the event bus and the orchestrator's  *)
(* pipeline lifecycle.                                                     *)
(*                                                                         *)
(* Time is a discrete clock `now` (time.Now()); durations are counted in   *)
(* ticks of that clock.                                                    *)
(***************************************************************************)
EXTENDS Integers, Sequences, FiniteSets, TLC

VARIABLES
    now,        \* the wall clock read by time.Now() / time.Since()
    cb,         \* CircuitBreaker fields: state, failures, successes, lastFailTime
    calls,      \* per caller: position inside CircuitBreaker.Execute and its last result
    cbLast,     \* history: the last operation that took the breaker's lock
    streak,     \* history: failed Execute calls recorded in Closed since the last success
    hoStreak,   \* history: successful Execute calls recorded since Half-Open was entered
    callbacks,  \* the onStateChange goroutines started by transitionTo, not yet run
    alerts,     \* history: the alert events the last step of the breaker published
    lastScaleTime, \* Engine.lastScaleTimes[clusterID], NoTime when absent
    tracker,    \* SustainedTracker: highStartTimes / lowStartTimes of the cluster
    analyzed,   \* the AnalyzedMetrics of the current cycle
    cstate,     \* the ClusterState snapshot of the current cycle
    decision,   \* the ScalingDecision of the current cycle
    d1,         \* history: the decision before `decision`, kept when it was a
                \* scale-up that was executed and recorded
    recorded,   \* history: RecordScaling was called for `decision`
    servers,    \* StateTracker: the state of each server of the cluster, in
                \* the order of t.clusters[clusterID]
    tasks,      \* the simulateProvisioning / simulateTermination goroutines
                \* that have not yet updated their server
    history,    \* Analyzer.history[clusterID]
    pc,         \* where the pipeline's run loop stands
    tickReady,  \* a tick is waiting in ticker.C
    scalerCalls, \* history: ScaleUp/ScaleDown calls made in the current cycle
    cycleEvents, \* history: the event types the current cycle has published, in order
    execErr,    \* history: the error the scaler call of the current cycle returned
    pipelines,  \* Orchestrator.pipelines[clusterID]: a Pipeline object or NoPipeline
    started,    \* Orchestrator.started
    omu,        \* Orchestrator.mu: the goroutine holding it, or NoOne
    objs,       \* the Pipeline objects made by NewPipeline: running, ctx cancelled
    loops,      \* per Pipeline object, its run goroutines and where each stands
    thr,        \* per goroutine calling into the lifecycle: its call and position
    stopReturned, \* history: the pipeline's loops when a Pipeline.Stop last returned
    closeSnap,  \* history: how Orchestrator.Stop came to close the event bus
    subscribers, \* EventBus.subscribers: per event type, its channels in order
    allChans,   \* EventBus.allChans
    busClosed,  \* EventBus.closed
    chans,      \* the channels made by Subscribe/SubscribeAll: buffer, close(ch)
                \* calls so far, made before Close, made by SubscribeAll, and
                \* what its subscriber received
    pubs,       \* per publishing goroutine: its place inside Publish
    nextEvent,  \* history: the number the next published event gets
    sentOnClosed, \* history: a send was made on a closed channel
    before,     \* history: pairs <<a, b>>, Publish of a returned before that of b began
    attempts,   \* ResilientCollector.Collect: calls of the wrapped collector made by
                \* the Collect call in progress, or by the last one
    outcomes,   \* history: results that Collect call recorded on the breaker
    collectorFailed,  \* history: the wrapped collector has returned an error
    calc,       \* a call of calculateScaleUpDelta: its arguments and its result
    prev,       \* history: the decision a repeated Decide call came after, and
                \* whether RecordScaling ran between the two calls
    sdown,      \* SimulatorScaler.mu as held by a ScaleDown call, with the active
                \* servers the call has read and not yet put into draining
    fleet,      \* two clusters started by StartCluster: the breakers of their
                \* resilient collectors, and per pipeline its analyzer history,
                \* tracker, engine and registry, with its collects counted
    histories,  \* Analyzer.history of one analyzer given the samples of two
                \* clusters: cluster id -> its snapshots
    arrivals    \* cluster id -> the number of snapshots recorded for it so far

cbVars == <<cb, calls, cbLast, streak, hoStreak, callbacks, alerts>>

engineVars == <<lastScaleTime, tracker, analyzed, cstate, decision, d1, recorded>>

pipeVars == <<servers, tasks, history, pc, tickReady, scalerCalls, cycleEvents, execErr>>

lifeVars == <<pipelines, started, omu, objs, loops, thr, stopReturned, closeSnap>>

busVars == <<subscribers, allChans, busClosed, chans, pubs, nextEvent, sentOnClosed, before>>
collVars == <<attempts, outcomes, collectorFailed>>
calcVars == <<calc, prev>>
scalerVars == <<sdown>>
fleetVars == <<fleet>>
histVars == <<histories, arrivals>>

vars == <<now, cb, calls, cbLast, streak, hoStreak, callbacks, alerts,
          lastScaleTime, tracker, analyzed, cstate, decision, d1, recorded,
          servers, tasks, history, pc, tickReady, scalerCalls, cycleEvents, execErr,
          pipelines, started, omu, objs, loops, thr, stopReturned, closeSnap,
          subscribers, allChans, busClosed, chans, pubs, nextEvent, sentOnClosed, before,
          attempts, outcomes, collectorFailed, calc, prev, sdown, fleet, histories, arrivals>>

(***************************************************************************)
(* Bounds of the model.                                                    *)
(***************************************************************************)
MaxTime == 3          \* the clock stops advancing here
MaxRegistry == 6      \* servers the state tracker holds, terminated ones included
MaxPipelines == 2     \* Pipeline objects made for the cluster id
MaxLoops == 2         \* run goroutines started on one Pipeline object
NumClients == 2       \* goroutines calling the orchestrator and the pipelines
NumCallers == 2       \* goroutines calling Execute on one breaker
MaxChans == 2         \* channels handed out by the event bus
MaxEvents == 2        \* events published on the bus
NumPublishers == 1    \* goroutines calling Publish
MaxCallbacks == 2     \* onStateChange goroutines started and not yet run

(***************************************************************************)
(* Circuit breaker configuration (CircuitBreakerConfig), in ticks/counts.  *)
(***************************************************************************)
MaxFailures == 2
Timeout == 2
HalfOpenMax == 2

Callers == 1..NumCallers

NoTime == -1          \* the zero time.Time / an absent map entry

Since(t) == now - t   \* time.Since(t)

(***************************************************************************)
(* internal/resilience/circuit_breaker.go                                  *)
(***************************************************************************)
StateClosed == "closed"
StateOpen == "open"
StateHalfOpen == "half-open"

\* `spawned` holds the onStateChange goroutines started during the call in
\* progress, as <<from, to>>; they are handed to `callbacks` when it ends.
NewCircuitBreaker ==
    [state |-> StateClosed, failures |-> 0, successes |-> 0, lastFailTime |-> NoTime,
     spawned |-> <<>>]

\* transitionTo: set the state, clear both counters, go onStateChange.
transitionTo(b, newState) ==
    [b EXCEPT !.state = newState, !.failures = 0, !.successes = 0,
              !.spawned = Append(@, <<b.state, newState>>)]

\* canExecute: <<admitted, breaker after the call>>.
canExecute(b) ==
    CASE b.state = StateClosed -> <<TRUE, b>>
      [] b.state = StateOpen ->
            IF Since(b.lastFailTime) > Timeout
            THEN <<TRUE, transitionTo(b, StateHalfOpen)>>
            ELSE <<FALSE, b>>
      [] b.state = StateHalfOpen -> <<TRUE, b>>

\* A slip in recordSuccess: a success is counted in the Closed state as well.
recordSuccessCountsClosed(b) ==
    CASE b.state = StateClosed -> [b EXCEPT !.failures = 0, !.successes = b.successes + 1]
      [] b.state = StateHalfOpen ->
            IF b.successes + 1 >= HalfOpenMax
            THEN transitionTo([b EXCEPT !.successes = b.successes + 1], StateClosed)
            ELSE [b EXCEPT !.successes = b.successes + 1]
      [] OTHER -> b

\* recordSuccess: Closed clears the failures; Half-Open counts the success and
\* closes the breaker at halfOpenMax; Open changes nothing.
recordSuccess(b) ==
    CASE b.state = StateClosed -> [b EXCEPT !.failures = 0]
      [] b.state = StateHalfOpen ->
            IF b.successes + 1 >= HalfOpenMax
            THEN transitionTo([b EXCEPT !.successes = b.successes + 1], StateClosed)
            ELSE [b EXCEPT !.successes = b.successes + 1]
      [] OTHER -> b

\* A slip in recordFailure: the threshold compared with > instead of >=.
recordFailureLate(b) ==
    LET stamped == [b EXCEPT !.lastFailTime = now] IN
    CASE b.state = StateClosed ->
            IF stamped.failures + 1 > MaxFailures
            THEN transitionTo([stamped EXCEPT !.failures = stamped.failures + 1], StateOpen)
            ELSE [stamped EXCEPT !.failures = stamped.failures + 1]
      [] b.state = StateHalfOpen -> transitionTo(stamped, StateOpen)
      [] OTHER -> stamped

\* A slip in recordFailure: lastFailTime stamped only on the Closed path.
recordFailureNoStamp(b) ==
    CASE b.state = StateClosed ->
            IF b.failures + 1 >= MaxFailures
            THEN transitionTo([b EXCEPT !.failures = b.failures + 1,
                                        !.lastFailTime = now], StateOpen)
            ELSE [b EXCEPT !.failures = b.failures + 1, !.lastFailTime = now]
      [] b.state = StateHalfOpen -> transitionTo(b, StateOpen)
      [] OTHER -> [b EXCEPT !.lastFailTime = now]

\* A slip in recordFailure: a failure that finds the breaker Open is dropped.
recordFailureDropsLate(b) ==
    LET stamped == [b EXCEPT !.lastFailTime = now] IN
    CASE b.state = StateClosed ->
            IF stamped.failures + 1 >= MaxFailures
            THEN transitionTo([stamped EXCEPT !.failures = stamped.failures + 1], StateOpen)
            ELSE [stamped EXCEPT !.failures = stamped.failures + 1]
      [] b.state = StateHalfOpen -> transitionTo(stamped, StateOpen)
      [] OTHER -> b

\* recordFailure: lastFailTime is stamped in every state; Closed counts the
\* failure and opens at maxFailures, Half-Open opens, Open changes nothing else.
recordFailure(b) ==
    LET stamped == [b EXCEPT !.lastFailTime = now] IN
    CASE b.state = StateClosed ->
            IF stamped.failures + 1 >= MaxFailures
            THEN transitionTo([stamped EXCEPT !.failures = stamped.failures + 1], StateOpen)
            ELSE [stamped EXCEPT !.failures = stamped.failures + 1]
      [] b.state = StateHalfOpen -> transitionTo(stamped, StateOpen)
      [] OTHER -> stamped

NoOp == [op |-> "none", from |-> StateClosed, at |-> 0, since |-> 0, caller |-> 0]

CBInit ==
    /\ cb = NewCircuitBreaker
    /\ calls = [c \in Callers |-> [pc |-> "idle", result |-> "none"]]
    /\ cbLast = NoOp
    /\ streak = 0
    /\ hoStreak = 0
    /\ callbacks = <<>>
    /\ alerts = <<>>

\* The breaker after a call, with the goroutines the call started handed to
\* the scheduler.
AfterCall(b) ==
    /\ Len(callbacks) + Len(b.spawned) <= MaxCallbacks
    /\ cb' = [b EXCEPT !.spawned = <<>>]
    /\ callbacks' = callbacks \o b.spawned
    /\ alerts' = <<>>

\* A slip in the callback: an alert for every change of state.
onStateChangeEvery(from, to) ==
    <<[type |-> "alert", severity |-> "warning", from |-> from, to |-> to]>>

\* The OnStateChange callback StartCluster gives the collector's breaker:
\* the events it publishes, a warning alert when the new state is Open.
onStateChange(from, to) ==
    IF to = StateOpen
    THEN <<[type |-> "alert", severity |-> "warning", from |-> from, to |-> to]>>
    ELSE <<>>

\* One of the started onStateChange goroutines runs.
OnStateChange(i) ==
    /\ i \in DOMAIN callbacks
    /\ alerts' = onStateChange(callbacks[i][1], callbacks[i][2])
    /\ callbacks' = [k \in 1..(Len(callbacks) - 1) |->
                        IF k < i THEN callbacks[k] ELSE callbacks[k + 1]]
    /\ UNCHANGED <<now, cb, calls, cbLast, streak, hoStreak,
                   engineVars, pipeVars, collVars, calcVars, scalerVars, fleetVars, histVars, lifeVars, busVars>>

\* Execute, first half: canExecute under the lock; a rejected call returns
\* ErrCircuitOpen at once, an admitted one goes on to run fn.
ExecuteAdmit(c) ==
    /\ calls[c].pc = "idle"
    /\ LET r == canExecute(cb) IN
        /\ AfterCall(r[2])
        /\ calls' = [calls EXCEPT ![c] =
                        IF r[1] THEN [pc |-> "running", result |-> "none"]
                                ELSE [pc |-> "idle", result |-> "circuit_open"]]
        /\ cbLast' = [op |-> IF r[1] THEN "admit" ELSE "reject", from |-> cb.state,
                      at |-> now, since |-> Since(cb.lastFailTime), caller |-> c]
        /\ hoStreak' = IF r[2].state # cb.state THEN 0 ELSE hoStreak
    /\ UNCHANGED <<now, streak, engineVars, pipeVars, collVars, calcVars, scalerVars, fleetVars, histVars, lifeVars, busVars>>

\* Execute, second half: fn has returned nil; recordSuccess under the lock.
ExecuteSucceed(c) ==
    /\ calls[c].pc = "running"
    /\ AfterCall(recordSuccess(cb))
    /\ calls' = [calls EXCEPT ![c] = [pc |-> "idle", result |-> "ok"]]
    /\ cbLast' = [op |-> "success", from |-> cb.state, at |-> now, since |-> 0, caller |-> c]
    /\ streak' = 0
    /\ hoStreak' = IF cb.state = StateHalfOpen THEN hoStreak + 1 ELSE hoStreak
    /\ UNCHANGED <<now, engineVars, pipeVars, collVars, calcVars, scalerVars, fleetVars, histVars, lifeVars, busVars>>

\* Execute, second half: fn has returned an error; recordFailure under the lock.
ExecuteFail(c) ==
    /\ calls[c].pc = "running"
    /\ AfterCall(recordFailure(cb))
    /\ calls' = [calls EXCEPT ![c] = [pc |-> "idle", result |-> "err"]]
    /\ cbLast' = [op |-> "failure", from |-> cb.state, at |-> now, since |-> 0, caller |-> c]
    /\ streak' = IF cb.state = StateClosed THEN streak + 1 ELSE streak
    /\ UNCHANGED <<now, hoStreak, engineVars, pipeVars, collVars, calcVars, scalerVars, fleetVars, histVars, lifeVars, busVars>>

\* Reset (ResilientCollector.ResetCircuit).
Reset ==
    /\ cb' = [cb EXCEPT !.state = StateClosed, !.failures = 0, !.successes = 0]
    /\ alerts' = <<>>
    /\ callbacks' = callbacks
    /\ cbLast' = [op |-> "reset", from |-> cb.state, at |-> now, since |-> 0, caller |-> 0]
    /\ streak' = 0
    /\ hoStreak' = 0
    /\ UNCHANGED <<now, calls, engineVars, pipeVars, collVars, calcVars, scalerVars, fleetVars, histVars, lifeVars, busVars>>

Tick ==
    /\ now < MaxTime
    /\ now' = now + 1

CBTick ==
    /\ Tick
    /\ alerts' = <<>>
    /\ UNCHANGED <<cb, calls, cbLast, streak, hoStreak, callbacks,
                   engineVars, pipeVars, collVars, calcVars, scalerVars, fleetVars, histVars, lifeVars, busVars>>

CBNext ==
    \/ \E c \in Callers : ExecuteAdmit(c)
    \/ \E c \in Callers : ExecuteSucceed(c)
    \/ \E c \in Callers : ExecuteFail(c)
    \/ Reset
    \/ \E i \in 1..MaxCallbacks : OnStateChange(i)
    \/ CBTick

(***************************************************************************)
(* Decision engine configuration (decision.Config as the orchestrator      *)
(* builds it; NewEngine fills the zero fields with its defaults).          *)
(***************************************************************************)
EmergencyCPUThreshold == 95
TargetCPU == 70
CPUHighThreshold == 80
CPULowThreshold == 30
CriticalCPU == 95            \* the literal of evaluateCPUThreshold
CriticalMemory == 95         \* the literal of evaluateMemoryThreshold
MemoryHighThreshold == 85
MemoryUsage == 50            \* the memory reading of every server of a sample
ThresholdUnset == ""         \* a ThresholdStatus field left at its zero value
EmergencyDelta == 3          \* the literal Decide passes on the emergency path
ConfidenceThreshold == 70    \* IsHighConfidence(0.7), in percent
MinServers == 1
MaxServers == 3
MaxScaleStep == 2
CooldownPeriod == 2
SustainedHighDuration == 1
SustainedLowDuration == 2

CpuLevels == {20, 85, 96}     \* average CPU readings a sample may carry

ActionScaleUp == "SCALE_UP"
ActionScaleDown == "SCALE_DOWN"
ActionMaintain == "MAINTAIN"

ThresholdNormal == "normal"
ThresholdWarning == "warning"
ThresholdCritical == "critical"

TrendRising == "rising"
TrendFalling == "falling"
TrendStable == "stable"

NoPrediction == [present |-> FALSE, Confidence |-> 0, PredictedCPU |-> 0]   \* a nil *Prediction

(***************************************************************************)
(* pkg/models: ClusterState, ScalingDecision, Prediction                   *)
(***************************************************************************)
CanScaleUp(cs, maxServers) == cs.TotalServers < maxServers

\* A slip in the capacity check: a cluster at its minimum may still shrink.
CanScaleDownAtMin(cs, minServers) == cs.ActiveServers >= minServers

CanScaleDown(cs, minServers) == cs.ActiveServers > minServers

\* AnalyzedMetrics.IsCritical
IsCritical(a) == a.CPUStatus = ThresholdCritical \/ a.MemoryStatus = ThresholdCritical

IsHighConfidence(p, threshold) == p.Confidence >= threshold

ShouldExecute(d) == d.Action # ActionMaintain /\ ~d.CooldownActive

(***************************************************************************)
(* internal/analyzer: threshold classification and the sustained tracker   *)
(***************************************************************************)
evaluateCPUThreshold(cpu) ==
    IF cpu >= CriticalCPU THEN ThresholdCritical
    ELSE IF cpu >= CPUHighThreshold THEN ThresholdWarning
    ELSE ThresholdNormal

evaluateMemoryThreshold(memory) ==
    IF memory >= CriticalMemory THEN ThresholdCritical
    ELSE IF memory >= MemoryHighThreshold THEN ThresholdWarning
    ELSE ThresholdNormal

NewSustainedTracker == [high |-> NoTime, low |-> NoTime]

\* A slip in Update: the high timer is left running when the CPU falls below
\* the high threshold.
UpdateKeepsHigh(t, a) ==
    LET high == IF a.AvgCPU >= CPUHighThreshold
                THEN (IF t.high = NoTime THEN now ELSE t.high)
                ELSE t.high
        low == IF a.AvgCPU <= CPULowThreshold
               THEN (IF t.low = NoTime THEN now ELSE t.low)
               ELSE NoTime
    IN  <<[high |-> high, low |-> low],
          [a EXCEPT !.SustainedHighAt = high, !.SustainedLowAt = low]>>

\* A slip in Update: every sample at or above the high threshold restarts the
\* high timer.
UpdateRestartsHigh(t, a) ==
    LET high == IF a.AvgCPU >= CPUHighThreshold THEN now ELSE NoTime
        low == IF a.AvgCPU <= CPULowThreshold
               THEN (IF t.low = NoTime THEN now ELSE t.low)
               ELSE NoTime
    IN  <<[high |-> high, low |-> low],
          [a EXCEPT !.SustainedHighAt = high, !.SustainedLowAt = low]>>

\* SustainedTracker.Update: <<tracker after the call, analyzed with the two
\* sustained timestamps filled in>>.
Update(t, a) ==
    LET high == IF a.AvgCPU >= CPUHighThreshold
                THEN (IF t.high = NoTime THEN now ELSE t.high)
                ELSE NoTime
        low == IF a.AvgCPU <= CPULowThreshold
               THEN (IF t.low = NoTime THEN now ELSE t.low)
               ELSE NoTime
    IN  <<[high |-> high, low |-> low],
          [a EXCEPT !.SustainedHighAt = high, !.SustainedLowAt = low]>>

(***************************************************************************)
(* Decision engine (package decision)                                      *)
(***************************************************************************)
\* A slip in isInCooldown: the comparison turned around.
isInCooldownReversed(lastScale) ==
    IF lastScale = NoTime THEN FALSE ELSE Since(lastScale) > CooldownPeriod

\* A slip in isInCooldown: the period's last instant counted in.
isInCooldownInclusive(lastScale) ==
    IF lastScale = NoTime THEN FALSE ELSE Since(lastScale) <= CooldownPeriod

isInCooldown(lastScale) ==
    IF lastScale = NoTime THEN FALSE ELSE Since(lastScale) < CooldownPeriod

\* A slip in shouldScaleDown: a sample without servers never scales down.
shouldScaleDownNeedsServers(a, prediction, cs) ==
    IF ~CanScaleDown(cs, MinServers) THEN <<FALSE, "">>
    ELSE IF a.Trend = TrendRising \/ a.ServerCount = 0 THEN <<FALSE, "">>
    ELSE IF prediction.present /\ IsHighConfidence(prediction, ConfidenceThreshold)
            /\ prediction.PredictedCPU >= CPUHighThreshold
        THEN <<FALSE, "">>
    ELSE IF a.SustainedLowAt # NoTime /\ Since(a.SustainedLowAt) >= SustainedLowDuration
            /\ a.AvgCPU < CPULowThreshold
        THEN <<TRUE, "sustained_low_cpu">>
    ELSE IF a.AvgCPU < CPULowThreshold /\ a.Trend = TrendFalling
        THEN <<TRUE, "low_cpu_falling_trend">>
    ELSE <<FALSE, "">>

\* shouldScaleUp: <<scaleUp, reason>>.
shouldScaleUp(a, prediction, cs) ==
    IF ~CanScaleUp(cs, MaxServers) THEN <<FALSE, "">>
    ELSE IF a.CPUStatus = ThresholdCritical THEN <<TRUE, "cpu_critical">>
    ELSE IF a.HasSpike THEN <<TRUE, "spike_detected">>
    ELSE IF a.CPUStatus = ThresholdWarning /\ a.Trend = TrendRising THEN
        IF a.SustainedHighAt # NoTime /\ Since(a.SustainedHighAt) >= SustainedHighDuration
        THEN <<TRUE, "sustained_high_rising">>
        ELSE <<TRUE, "warning_rising_trend">>
    ELSE IF a.SustainedHighAt # NoTime /\ Since(a.SustainedHighAt) >= SustainedHighDuration
        THEN <<TRUE, "sustained_high_cpu">>
    ELSE IF prediction.present /\ IsHighConfidence(prediction, ConfidenceThreshold)
            /\ prediction.PredictedCPU >= CPUHighThreshold
        THEN <<TRUE, "predicted_spike_proactive">>
    ELSE <<FALSE, "">>

\* shouldScaleDown: <<scaleDown, reason>>.
shouldScaleDown(a, prediction, cs) ==
    IF ~CanScaleDown(cs, MinServers) THEN <<FALSE, "">>
    ELSE IF a.Trend = TrendRising THEN <<FALSE, "">>
    ELSE IF prediction.present /\ IsHighConfidence(prediction, ConfidenceThreshold)
            /\ prediction.PredictedCPU >= CPUHighThreshold
        THEN <<FALSE, "">>
    ELSE IF a.SustainedLowAt # NoTime /\ Since(a.SustainedLowAt) >= SustainedLowDuration
            /\ a.AvgCPU < CPULowThreshold
        THEN <<TRUE, "sustained_low_cpu">>
    ELSE IF a.AvgCPU < CPULowThreshold /\ a.Trend = TrendFalling
        THEN <<TRUE, "low_cpu_falling_trend">>
    ELSE <<FALSE, "">>

\* int(float64(ActiveServers) * (AvgCPU / TargetCPU)): the product truncated.
calculateScaleUpDelta(a, cs) ==
    IF a.AvgCPU >= EmergencyCPUThreshold THEN MaxScaleStep
    ELSE IF a.AvgCPU > 0 /\ cs.ActiveServers > 0 THEN
        LET idealServers == (cs.ActiveServers * a.AvgCPU) \div TargetCPU
            delta == idealServers - cs.ActiveServers
        IN  IF delta < 1 THEN 1
            ELSE IF delta > MaxScaleStep THEN MaxScaleStep
            ELSE delta
    ELSE 1

\* A slip in the scale-down step: the cluster shrinks to its minimum at once.
calculateScaleDownDeltaAll(a, cs) == cs.ActiveServers - MinServers

calculateScaleDownDelta(a, cs) == 1

createScaleUpDecision(d, cs, delta, reason, isEmergency, predictionUsed) ==
    LET targetServers == cs.ActiveServers + delta IN
    [d EXCEPT !.Action = ActionScaleUp,
              !.TargetServers = IF targetServers > MaxServers THEN MaxServers
                                ELSE targetServers,
              !.Reason = reason,
              !.IsEmergency = isEmergency,
              !.PredictionUsed = predictionUsed]

createScaleDownDecision(d, cs, delta, reason) ==
    LET targetServers == cs.ActiveServers - delta IN
    [d EXCEPT !.Action = ActionScaleDown,
              !.TargetServers = IF targetServers < MinServers THEN MinServers
                                ELSE targetServers,
              !.Reason = reason]

NewDecision(cs) ==
    [Timestamp |-> now, CurrentServers |-> cs.ActiveServers,
     TargetServers |-> cs.ActiveServers, Action |-> ActionMaintain, Reason |-> "",
     PredictionUsed |-> FALSE, IsEmergency |-> FALSE, CooldownActive |-> FALSE]

\* A slip in Decide: the cooldown gate placed before the emergency override.
DecideCooldownFirst(a, prediction, cs, lastScale) ==
    LET d == NewDecision(cs)
        up == shouldScaleUp(a, prediction, cs)
        down == shouldScaleDown(a, prediction, cs)
    IN  IF isInCooldown(lastScale)
        THEN [d EXCEPT !.CooldownActive = TRUE, !.Reason = "in_cooldown"]
        ELSE IF a.AvgCPU >= EmergencyCPUThreshold
        THEN createScaleUpDecision(d, cs, EmergencyDelta, "emergency_cpu_critical", TRUE, FALSE)
        ELSE IF up[1]
        THEN createScaleUpDecision(d, cs, calculateScaleUpDelta(a, cs), up[2], FALSE,
                                   prediction.present /\ up[2] = "predicted_spike_proactive")
        ELSE IF down[1]
        THEN createScaleDownDecision(d, cs, calculateScaleDownDelta(a, cs), down[2])
        ELSE [d EXCEPT !.Reason = "within_normal_parameters"]

\* Engine.Decide; lastScale is e.lastScaleTimes[analyzed.ClusterID].
Decide(a, prediction, cs, lastScale) ==
    LET d == NewDecision(cs)
        up == shouldScaleUp(a, prediction, cs)
        down == shouldScaleDown(a, prediction, cs)
    IN  IF a.AvgCPU >= EmergencyCPUThreshold
        THEN createScaleUpDecision(d, cs, EmergencyDelta, "emergency_cpu_critical", TRUE, FALSE)
        ELSE IF isInCooldown(lastScale)
        THEN [d EXCEPT !.CooldownActive = TRUE, !.Reason = "in_cooldown"]
        ELSE IF up[1]
        THEN createScaleUpDecision(d, cs, calculateScaleUpDelta(a, cs), up[2], FALSE,
                                   prediction.present /\ up[2] = "predicted_spike_proactive")
        ELSE IF down[1]
        THEN createScaleDownDecision(d, cs, calculateScaleDownDelta(a, cs), down[2])
        ELSE [d EXCEPT !.Reason = "within_normal_parameters"]

NoAnalyzed ==
    [AvgCPU |-> 0, AvgMemory |-> 0, ServerCount |-> 0, CPUStatus |-> ThresholdNormal,
     MemoryStatus |-> ThresholdUnset, Trend |-> TrendStable,
     HasSpike |-> FALSE, SustainedHighAt |-> NoTime, SustainedLowAt |-> NoTime]

NoClusterState == [TotalServers |-> 0, ActiveServers |-> 0, ProvisioningCnt |-> 0,
                   DrainingCount |-> 0]

NoDecision ==
    [Timestamp |-> NoTime, CurrentServers |-> 0, TargetServers |-> 0,
     Action |-> ActionMaintain, Reason |-> "", PredictionUsed |-> FALSE,
     IsEmergency |-> FALSE, CooldownActive |-> FALSE]

NoD1 == [Action |-> ActionMaintain, Timestamp |-> NoTime]

EngineInit ==
    /\ lastScaleTime = NoTime
    /\ tracker = NewSustainedTracker
    /\ analyzed = NoAnalyzed
    /\ cstate = NoClusterState
    /\ decision = NoDecision
    /\ d1 = NoD1
    /\ recorded = FALSE

(***************************************************************************)
(* The engine driven directly, as the pipeline's analyze and decide stages *)
(* drive it, with every analysis result and cluster state as input.        *)
(***************************************************************************)
ClusterStates ==
    {[TotalServers |-> t, ActiveServers |-> a, ProvisioningCnt |-> t - a, DrainingCount |-> 0] :
        <<a, t>> \in {x \in (0..MaxServers) \X (0..MaxServers) : x[1] <= x[2]}}

\* Pipeline.analyze's tracker update followed by Pipeline.decide.
DecideStep(cpu, trend, spike, prediction, cs) ==
    LET a0 == [AvgCPU |-> cpu, AvgMemory |-> MemoryUsage, ServerCount |-> 1,
               CPUStatus |-> evaluateCPUThreshold(cpu),
               MemoryStatus |-> evaluateMemoryThreshold(MemoryUsage),
               Trend |-> trend, HasSpike |-> spike,
               SustainedHighAt |-> NoTime, SustainedLowAt |-> NoTime]
        u == Update(tracker, a0)
    IN  /\ tracker' = u[1]
        /\ analyzed' = u[2]
        /\ cstate' = cs
        /\ decision' = Decide(u[2], prediction, cs, lastScaleTime)
        /\ d1' = IF decision.Action = ActionScaleUp /\ recorded
                 THEN [Action |-> decision.Action, Timestamp |-> decision.Timestamp]
                 ELSE NoD1
        /\ recorded' = FALSE
        /\ UNCHANGED <<now, lastScaleTime, cbVars, pipeVars, collVars, calcVars, scalerVars, fleetVars, histVars, lifeVars, busVars>>

\* Pipeline.execute after a scaler call that returned no error: RecordScaling.
RecordScaling ==
    /\ decision.Timestamp # NoTime
    /\ ~recorded
    /\ ShouldExecute(decision)
    /\ recorded' = TRUE
    /\ lastScaleTime' = now
    /\ UNCHANGED <<now, tracker, analyzed, cstate, decision, d1, cbVars, pipeVars, collVars, calcVars, scalerVars, fleetVars, histVars, lifeVars, busVars>>

DecideTick == Tick /\ UNCHANGED <<cbVars, engineVars, pipeVars, collVars, calcVars, scalerVars, fleetVars, histVars, lifeVars, busVars>>

\* The values of HasSpike given to Decide with a reading: detectSpike finds no
\* spike at the lowest reading, which nothing lower came before, and Decide
\* does not read HasSpike at or above the emergency threshold.
SpikesAt(cpu) ==
    IF cpu > CPULowThreshold /\ cpu < EmergencyCPUThreshold THEN BOOLEAN ELSE {FALSE}

DecideNext ==
    \/ \E cpu \in CpuLevels, trend \in {TrendRising, TrendFalling, TrendStable},
          cs \in ClusterStates :
            \E spike \in SpikesAt(cpu) : DecideStep(cpu, trend, spike, NoPrediction, cs)
    \/ RecordScaling
    \/ DecideTick

(***************************************************************************)
(* Decide called again and again with the same analyzed metrics and the    *)
(* same cluster state, while the clock runs and the pipeline records its   *)
(* scalings.                                                               *)
(***************************************************************************)
NoPrev == [d |-> NoDecision, recorded |-> FALSE]

\* The analyzed metrics analyze hands to decide on a tracker's first sample.
AnalyzedInputs ==
    {Update(NewSustainedTracker,
            [AvgCPU |-> cpu, AvgMemory |-> MemoryUsage, ServerCount |-> 1,
             CPUStatus |-> evaluateCPUThreshold(cpu),
             MemoryStatus |-> evaluateMemoryThreshold(MemoryUsage),
             Trend |-> trend, HasSpike |-> spike,
             SustainedHighAt |-> NoTime, SustainedLowAt |-> NoTime])[2] :
        cpu \in CpuLevels, trend \in {TrendRising, TrendFalling, TrendStable},
        spike \in BOOLEAN}

\* Engine.Decide with the arguments of the call before.
DecideAgain ==
    /\ decision' = Decide(analyzed, NoPrediction, cstate, lastScaleTime)
    /\ prev' = [d |-> decision, recorded |-> recorded]
    /\ d1' = IF decision.Action = ActionScaleUp /\ recorded
             THEN [Action |-> decision.Action, Timestamp |-> decision.Timestamp]
             ELSE NoD1
    /\ recorded' = FALSE
    /\ UNCHANGED <<now, lastScaleTime, tracker, analyzed, cstate, calc, scalerVars, fleetVars, histVars,
                   cbVars, pipeVars, collVars, lifeVars, busVars>>

AgainNext ==
    \/ DecideAgain
    \/ RecordScaling
    \/ DecideTick

(***************************************************************************)
(* calculateScaleUpDelta on its own, over clusters larger than the one the *)
(* pipeline above is configured for.                                       *)
(***************************************************************************)
MaxActive == 6

\* Average CPU values between TargetCPU and EmergencyCPUThreshold.
ScaleUpCPUs == (TargetCPU + 1)..(EmergencyCPUThreshold - 1)

NoCalc == [AvgCPU |-> 0, ActiveServers |-> 0, delta |-> 0]

CalcScaleUpDelta(cpu, active) ==
    /\ calc' = [AvgCPU |-> cpu, ActiveServers |-> active,
                delta |-> calculateScaleUpDelta([AvgCPU |-> cpu],
                                                [ActiveServers |-> active])]
    /\ UNCHANGED <<now, prev, scalerVars, fleetVars, histVars, cbVars, engineVars, pipeVars, collVars, lifeVars, busVars>>

CalcNext == \E cpu \in ScaleUpCPUs, active \in 1..MaxActive : CalcScaleUpDelta(cpu, active)

(***************************************************************************)
(* internal/scaler: the simulator scaler and its state tracker             *)
(***************************************************************************)
ServerStateProvisioning == "PROVISIONING"
ServerStateActive == "ACTIVE"
ServerStateDraining == "DRAINING"
ServerStateTerminated == "TERMINATED"

ErrInvalidTarget == "invalid target server count"
ErrClusterNotFound == "cluster not found"
NoErr == ""

CountState(reg, st) == Cardinality({i \in 1..Len(reg) : reg[i] = st})

\* StateTracker.GetClusterState: terminated servers are not counted.
GetClusterState(reg) ==
    [TotalServers |-> CountState(reg, ServerStateProvisioning)
                        + CountState(reg, ServerStateActive)
                        + CountState(reg, ServerStateDraining),
     ActiveServers |-> CountState(reg, ServerStateActive),
     ProvisioningCnt |-> CountState(reg, ServerStateProvisioning),
     DrainingCount |-> CountState(reg, ServerStateDraining)]

\* A slip in GetActiveServers: IsRunning used where IsActive is meant.
GetActiveServersRunning(reg) ==
    SelectSeq([i \in 1..Len(reg) |-> i],
              LAMBDA i : reg[i] \in {ServerStateProvisioning, ServerStateActive})

\* StateTracker.GetActiveServers: the active servers in registry order.
GetActiveServers(reg) ==
    SelectSeq([i \in 1..Len(reg) |-> i], LAMBDA i : reg[i] = ServerStateActive)

\* StateTracker.UpdateState: the new state is stored whatever the old one was.
UpdateState(reg, i, newState) == [reg EXCEPT ![i] = newState]

\* InitializeCluster(serverCount): serverCount servers, all activated.
InitializeCluster(serverCount) == [i \in 1..serverCount |-> ServerStateActive]

\* SimulatorScaler.ScaleUp: count provisioning servers are added and one
\* simulateProvisioning goroutine is started for each.
ScaleUp(reg, tk, count) ==
    IF count <= 0
    THEN [servers |-> reg, tasks |-> tk, err |-> ErrInvalidTarget, partial |-> FALSE]
    ELSE [servers |-> reg \o [i \in 1..count |-> ServerStateProvisioning],
          tasks |-> tk \cup {<<"provision", Len(reg) + i>> : i \in 1..count},
          err |-> NoErr, partial |-> FALSE]

\* SimulatorScaler.ScaleDown: the first min(count, active) active servers go to
\* draining and one simulateTermination goroutine is started for each.
ScaleDown(reg, tk, count) ==
    LET activeServers == GetActiveServers(reg)
        toRemove == IF count > Len(activeServers) THEN Len(activeServers) ELSE count
        picked == {activeServers[k] : k \in 1..toRemove}
    IN  IF count <= 0
        THEN [servers |-> reg, tasks |-> tk, err |-> ErrInvalidTarget, partial |-> FALSE]
        ELSE IF Len(activeServers) = 0
        THEN [servers |-> reg, tasks |-> tk, err |-> ErrClusterNotFound, partial |-> FALSE]
        ELSE [servers |-> [i \in 1..Len(reg) |->
                              IF i \in picked THEN ServerStateDraining ELSE reg[i]],
              tasks |-> tk \cup {<<"terminate", i>> : i \in picked},
              err |-> NoErr, partial |-> count > Len(activeServers)]

(***************************************************************************)
(* internal/analyzer: Analyze and its history                              *)
(***************************************************************************)
TrendWindow == 30            \* 5 minutes, in collect intervals of 10 s
OneMinute == 6               \* 1 minute, in collect intervals of 10 s
SpikeThreshold == 50
TrendThreshold == 3
MaxHistoryLength == 30

RECURSIVE SumSeq(_)
SumSeq(q) == IF q = <<>> THEN 0 ELSE Head(q) + SumSeq(Tail(q))

\* ClusterMetrics.CalculateAggregates: the mean CPU usage of the servers of a
\* sample (exact for the samples of this model, which carry one server).
AvgCPU(sample) == SumSeq(sample) \div Len(sample)

\* ClusterMetrics.CalculateAggregates: the mean memory usage of the servers of
\* a sample, each of which reports MemoryUsage.
AvgMemory(sample) == (Len(sample) * MemoryUsage) \div Len(sample)

\* A slip in recordSnapshot: a full history keeps its oldest snapshots and
\* drops the new one.
recordSnapshotKeepsOldest(h, avgCPU, timestamp) ==
    LET grown == Append(h, [timestamp |-> timestamp, avgCPU |-> avgCPU])
    IN  IF Len(grown) > MaxHistoryLength
        THEN SubSeq(grown, 1, MaxHistoryLength)
        ELSE grown

\* Analyzer.recordSnapshot: the snapshot is appended to the cluster's history,
\* which is cut to its last maxHistoryLen snapshots.
recordSnapshot(h, avgCPU, timestamp) ==
    LET grown == Append(h, [timestamp |-> timestamp, avgCPU |-> avgCPU])
    IN  IF Len(grown) > MaxHistoryLength
        THEN SubSeq(grown, Len(grown) - MaxHistoryLength + 1, Len(grown))
        ELSE grown

\* calculateTrend: the mean of the later half of the recent snapshots against
\* the mean of the earlier half; the two quotients are compared cross-multiplied.
calculateTrend(h) ==
    LET recent == SelectSeq(h, LAMBDA s : s.timestamp > now - TrendWindow)
        n == Len(recent)
        firstHalf == SubSeq(recent, 1, n \div 2)
        secondHalf == SubSeq(recent, n \div 2 + 1, n)
        sum1 == SumSeq([i \in 1..Len(firstHalf) |-> firstHalf[i].avgCPU])
        sum2 == SumSeq([i \in 1..Len(secondHalf) |-> secondHalf[i].avgCPU])
        l1 == Len(firstHalf)
        l2 == Len(secondHalf)
    IN  IF Len(h) < 3 \/ n < 3 THEN TrendStable
        ELSE IF sum2 * l1 - sum1 * l2 > TrendThreshold * l1 * l2 THEN TrendRising
        ELSE IF sum2 * l1 - sum1 * l2 < -(TrendThreshold * l1 * l2) THEN TrendFalling
        ELSE TrendStable

\* detectSpike: the current reading against the newest snapshot older than
\* one minute, or against the previous snapshot when there is none.
detectSpike(h, currentCPU) ==
    LET older == {i \in 1..(Len(h) - 1) : h[i].timestamp < now - OneMinute}
        previousCPU == IF older # {}
                       THEN h[CHOOSE i \in older : \A j \in older : j <= i].avgCPU
                       ELSE h[Len(h) - 1].avgCPU
    IN  IF Len(h) < 2 THEN FALSE
        ELSE IF previousCPU = 0 THEN FALSE
        ELSE (currentCPU - previousCPU) * 100 >= SpikeThreshold * previousCPU

\* Analyzer.Analyze: <<history after the call, analyzed metrics>>.
Analyze(h, sample) ==
    IF Len(sample) = 0
    THEN <<h, NoAnalyzed>>
    ELSE LET avg == AvgCPU(sample)
             h2 == recordSnapshot(h, avg, now)
         IN  <<h2, [AvgCPU |-> avg, AvgMemory |-> AvgMemory(sample),
                    ServerCount |-> Len(sample),
                    CPUStatus |-> evaluateCPUThreshold(avg),
                    MemoryStatus |-> evaluateMemoryThreshold(AvgMemory(sample)),
                    Trend |-> calculateTrend(h2),
                    HasSpike |-> detectSpike(h2, avg),
                    SustainedHighAt |-> NoTime, SustainedLowAt |-> NoTime]>>

(***************************************************************************)
(* The pipeline of one cluster (package orchestrator): run, runCycle and   *)
(* execute, over the simulator scaler.                                     *)
(***************************************************************************)
Samples == {<<>>} \cup {<<c>> : c \in CpuLevels}

\* models.EventType
EventTypeMetricCollected == "metric_collected"
EventTypeMetricAnalyzed == "metric_analyzed"
EventTypeDecisionMade == "decision_made"
EventTypeScalingStarted == "scaling_started"
EventTypeScalingComplete == "scaling_complete"
EventTypeScalingFailed == "scaling_failed"
EventTypeAlert == "alert"
EventTypeError == "error"

PipeInit ==
    /\ \E n \in MinServers..MaxServers : servers = InitializeCluster(n)
    /\ tasks = {}
    /\ history = <<>>
    /\ pc = "cycle"
    /\ tickReady = FALSE
    /\ scalerCalls = 0
    /\ cycleEvents = <<>>
    /\ execErr = NoErr

\* run: a cycle starts at once after Start and then on every tick received.
CycleReady == pc = "cycle" \/ (pc = "wait" /\ tickReady)

\* A slip in runCycle: the return after the collection error is missing, so
\* the cycle goes on with empty metrics.
runCycleNoReturn(ok, sample, s, reg, lastScale) ==
    LET an == Analyze(s.history, IF ok THEN sample ELSE <<>>)
        u == Update(s.tracker, an[2])
        cs == GetClusterState(reg)
        d == Decide(u[2], NoPrediction, cs, lastScale)
    IN  [history |-> an[1], tracker |-> u[1], analyzed |-> u[2],
         cstate |-> cs, decision |-> d,
         events |-> (IF ok THEN <<EventTypeMetricCollected>> ELSE <<EventTypeError>>)
                    \o <<EventTypeMetricAnalyzed>>
                    \o (IF IsCritical(u[2])
                        THEN <<EventTypeAlert>> ELSE <<>>)
                    \o <<EventTypeDecisionMade>>,
         execute |-> ShouldExecute(d)]

\* runCycle, steps 1 to 4: collect, analyze (with the sustained tracker),
\* GetClusterState and decide, with the events each step publishes. `ok` is
\* whether Collector.Collect returned metrics; `s` holds the analyzer
\* history, the tracker and the values of the cycle before.
runCycle(ok, sample, s, reg, lastScale) ==
    IF ~ok
    THEN [history |-> s.history, tracker |-> s.tracker, analyzed |-> s.analyzed,
          cstate |-> s.cstate, decision |-> s.decision,
          events |-> <<EventTypeError>>, execute |-> FALSE]
    ELSE LET an == Analyze(s.history, sample)
             u == Update(s.tracker, an[2])
             cs == GetClusterState(reg)
             d == Decide(u[2], NoPrediction, cs, lastScale)
         IN  [history |-> an[1], tracker |-> u[1], analyzed |-> u[2],
              cstate |-> cs, decision |-> d,
              events |-> <<EventTypeMetricCollected, EventTypeMetricAnalyzed>>
                         \o (IF IsCritical(u[2])
                             THEN <<EventTypeAlert>> ELSE <<>>)
                         \o <<EventTypeDecisionMade>>,
              execute |-> ShouldExecute(d)]

CycleState ==
    [history |-> history, tracker |-> tracker, analyzed |-> analyzed,
     cstate |-> cstate, decision |-> decision]

\* One run of runCycle up to the decision; execute follows only if
\* ShouldExecute.
CycleBody(ok, sample) ==
    /\ LET r == runCycle(ok, sample, CycleState, servers, lastScaleTime)
       IN  /\ history' = r.history
           /\ tracker' = r.tracker
           /\ analyzed' = r.analyzed
           /\ cstate' = r.cstate
           /\ decision' = r.decision
           /\ cycleEvents' = r.events
           /\ pc' = IF r.execute THEN "execute" ELSE "wait"
    /\ tickReady' = FALSE
    /\ scalerCalls' = 0
    /\ recorded' = FALSE
    /\ execErr' = NoErr
    /\ UNCHANGED <<lastScaleTime, d1, servers, tasks>>

\* One cycle of run over a collector that either answers or fails.
CycleRun(ok, sample) ==
    /\ CycleReady
    /\ CycleBody(ok, sample)
    /\ UNCHANGED <<now, cbVars, collVars, calcVars, scalerVars, fleetVars, histVars, lifeVars, busVars>>

\* runCycle, collection failed: the error is published and the cycle is over.
CycleCollectFail == CycleRun(FALSE, <<>>)

\* runCycle, collection succeeded.
CycleDecide(sample) == CycleRun(TRUE, sample)

\* A slip in execute's switch: the scale-up case falls through to scale-down.
executeSwitchFallthrough(d) ==
    IF d.Action = ActionScaleUp
    THEN <<[method |-> "ScaleUp", count |-> d.TargetServers - d.CurrentServers],
           [method |-> "ScaleDown", count |-> d.CurrentServers - d.TargetServers]>>
    ELSE IF d.Action = ActionScaleDown
    THEN <<[method |-> "ScaleDown", count |-> d.CurrentServers - d.TargetServers]>>
    ELSE <<>>

\* The switch of execute: the scaler calls made for a decision.
executeSwitch(d) ==
    IF d.Action = ActionScaleUp
    THEN <<[method |-> "ScaleUp", count |-> d.TargetServers - d.CurrentServers]>>
    ELSE IF d.Action = ActionScaleDown
    THEN <<[method |-> "ScaleDown", count |-> d.CurrentServers - d.TargetServers]>>
    ELSE <<>>

RECURSIVE CallScaler(_, _)
CallScaler(ops, r) ==
    IF ops = <<>> THEN r
    ELSE LET op == Head(ops)
             res == IF op.method = "ScaleUp" THEN ScaleUp(r.servers, r.tasks, op.count)
                    ELSE ScaleDown(r.servers, r.tasks, op.count)
         IN  CallScaler(Tail(ops), res)

\* A slip in execute: RecordScaling is called before the error is looked at.
executeRecordsFirst(d, reg, tk, lastScale) ==
    LET ops == executeSwitch(d)
        res == CallScaler(ops, [servers |-> reg, tasks |-> tk,
                                err |-> NoErr, partial |-> FALSE])
    IN  [servers |-> res.servers, tasks |-> res.tasks, err |-> res.err,
         calls |-> Len(ops), recorded |-> TRUE, lastScaleTime |-> now,
         events |-> <<EventTypeScalingStarted,
                      IF res.err # NoErr THEN EventTypeScalingFailed
                      ELSE EventTypeScalingComplete>>]

\* execute: scaling_started, the scaler call; on an error scaling_failed and
\* nothing is recorded, otherwise RecordScaling stamps the cooldown and
\* scaling_complete follows (status success or partial).
execute(d, reg, tk, lastScale) ==
    LET ops == executeSwitch(d)
        res == CallScaler(ops, [servers |-> reg, tasks |-> tk,
                                err |-> NoErr, partial |-> FALSE])
    IN  IF res.err # NoErr
        THEN [servers |-> res.servers, tasks |-> res.tasks, err |-> res.err,
              calls |-> Len(ops), recorded |-> FALSE, lastScaleTime |-> lastScale,
              events |-> <<EventTypeScalingStarted, EventTypeScalingFailed>>]
        ELSE [servers |-> res.servers, tasks |-> res.tasks, err |-> NoErr,
              calls |-> Len(ops), recorded |-> TRUE, lastScaleTime |-> now,
              events |-> <<EventTypeScalingStarted, EventTypeScalingComplete>>]

\* runCycle, step 5: execute runs for a decision that ShouldExecute.
CycleExecute ==
    /\ pc = "execute"
    /\ LET res == execute(decision, servers, tasks, lastScaleTime)
       IN  /\ Len(res.servers) <= MaxRegistry
           /\ servers' = res.servers
           /\ tasks' = res.tasks
           /\ scalerCalls' = scalerCalls + res.calls
           /\ recorded' = res.recorded
           /\ lastScaleTime' = res.lastScaleTime
           /\ execErr' = res.err
           /\ cycleEvents' = cycleEvents \o res.events
    /\ pc' = "wait"
    /\ UNCHANGED <<now, cbVars, collVars, calcVars, scalerVars, fleetVars, histVars, lifeVars, busVars, tracker, analyzed, cstate, decision, d1, history, tickReady>>

\* A stage of the cycle panics (a nil result, an index out of range). run and
\* runCycle defer only wg.Done, ticker.Stop and cancel and nothing on the
\* goroutine's stack calls recover: the panic unwinds run and ends the
\* process with every goroutine in it. Nothing is published.
CyclePanic ==
    /\ CycleReady \/ pc = "execute"
    /\ pc' = "crashed"
    /\ UNCHANGED <<now, cbVars, collVars, calcVars, scalerVars, fleetVars, histVars, lifeVars, busVars, engineVars, servers, tasks, history, tickReady,
                   scalerCalls, cycleEvents, execErr>>

\* simulateProvisioning, after its sleep: UpdateState(serverID, Active).
ProvisionDone(i) ==
    /\ pc # "crashed"
    /\ <<"provision", i>> \in tasks
    /\ servers' = UpdateState(servers, i, ServerStateActive)
    /\ tasks' = tasks \ {<<"provision", i>>}
    /\ UNCHANGED <<now, cbVars, collVars, calcVars, scalerVars, fleetVars, histVars, lifeVars, busVars, engineVars, history, pc, tickReady, scalerCalls,
                   cycleEvents, execErr>>

\* simulateTermination, after its sleep: UpdateState(serverID, Terminated).
TerminateDone(i) ==
    /\ pc # "crashed"
    /\ <<"terminate", i>> \in tasks
    /\ servers' = UpdateState(servers, i, ServerStateTerminated)
    /\ tasks' = tasks \ {<<"terminate", i>>}
    /\ UNCHANGED <<now, cbVars, collVars, calcVars, scalerVars, fleetVars, histVars, lifeVars, busVars, engineVars, history, pc, tickReady, scalerCalls,
                   cycleEvents, execErr>>

\* The clock advances by one collect interval and the ticker fires; a tick
\* that finds one already waiting in ticker.C is dropped.
PipeTick ==
    /\ pc # "crashed"
    /\ Tick
    /\ tickReady' = TRUE
    /\ UNCHANGED <<cbVars, collVars, calcVars, scalerVars, fleetVars, histVars, lifeVars, busVars, engineVars, servers, tasks, history, pc, scalerCalls,
                   cycleEvents, execErr>>

Next ==
    \/ CycleCollectFail
    \/ \E sample \in Samples : CycleDecide(sample)
    \/ CycleExecute
    \/ CyclePanic
    \/ \E i \in 1..MaxRegistry : ProvisionDone(i)
    \/ \E i \in 1..MaxRegistry : TerminateDone(i)
    \/ PipeTick

(***************************************************************************)
(* The pipeline over its ResilientCollector: every cycle's collect goes    *)
(* through one CircuitBreaker.Execute whose fn retries the wrapped         *)
(* collector.                                                              *)
(***************************************************************************)
RetryAttempts == 2

\* The pipeline's run goroutine is the breaker's one caller.
Loop == 1

CollectInit ==
    /\ attempts = 0
    /\ outcomes = 0
    /\ collectorFailed = FALSE

\* A slip in the wrapper: the breaker is told of every failed attempt.
afterAttemptEachFailure(b, ok, attempt) ==
    IF ok
    THEN [cb |-> recordSuccess(b), recorded |-> 1, done |-> TRUE, result |-> "ok"]
    ELSE [cb |-> recordFailure(b), recorded |-> 1,
          done |-> attempt >= RetryAttempts, result |-> "err"]

\* Collect, the fn handed to Execute, after its attempt-th call of the wrapped
\* collector: nil at the first success, the last error after the last
\* attempt, another round otherwise; Execute records what fn returned.
afterAttempt(b, ok, attempt) ==
    IF ok
    THEN [cb |-> recordSuccess(b), recorded |-> 1, done |-> TRUE, result |-> "ok"]
    ELSE IF attempt < RetryAttempts
         THEN [cb |-> b, recorded |-> 0, done |-> FALSE, result |-> "none"]
         ELSE [cb |-> recordFailure(b), recorded |-> 1, done |-> TRUE, result |-> "err"]

\* A slip in Execute: a context error returned by fn is not counted.
ctxDoneUnrecorded(b) ==
    [cb |-> b, recorded |-> 0, done |-> TRUE, result |-> "err"]

\* Collect's fn finds ctx done before an attempt or during the retry delay and
\* returns ctx.Err(); Execute records the error as a failure and returns it.
ctxDone(b) ==
    [cb |-> recordFailure(b), recorded |-> 1, done |-> TRUE, result |-> "err"]

\* The cycle's bookkeeping when collect was admitted and fn is running.
CollectRunning ==
    /\ pc' = "collect"
    /\ tickReady' = FALSE
    /\ scalerCalls' = 0
    /\ cycleEvents' = <<>>
    /\ execErr' = NoErr
    /\ recorded' = FALSE
    /\ UNCHANGED <<lastScaleTime, tracker, analyzed, cstate, decision, d1,
                   servers, tasks, history>>

\* runCycle begins: collect calls Collect, Execute asks canExecute. A
\* rejected call returns ErrCircuitOpen and runCycle goes on with that error.
CollectBegin ==
    /\ CycleReady
    /\ calls[Loop].pc = "idle"
    /\ LET r == canExecute(cb) IN
        /\ AfterCall(r[2])
        /\ cbLast' = [op |-> IF r[1] THEN "admit" ELSE "reject", from |-> cb.state,
                      at |-> now, since |-> Since(cb.lastFailTime), caller |-> Loop]
        /\ hoStreak' = IF r[2].state # cb.state THEN 0 ELSE hoStreak
        /\ attempts' = 0
        /\ outcomes' = 0
        /\ UNCHANGED collectorFailed
        /\ IF r[1]
           THEN /\ calls' = [calls EXCEPT ![Loop] = [pc |-> "running", result |-> "none"]]
                /\ CollectRunning
           ELSE /\ calls' = [calls EXCEPT ![Loop] =
                                [pc |-> "idle", result |-> "circuit_open"]]
                /\ CycleBody(FALSE, <<>>)
    /\ UNCHANGED <<now, streak, calcVars, scalerVars, fleetVars, histVars, lifeVars, busVars>>

\* Execute's bookkeeping once fn has returned with result `res`, and the rest
\* of runCycle with the metrics or the error.
CollectReturn(b, res, sample) ==
    /\ AfterCall(b)
    /\ calls' = [calls EXCEPT ![Loop] = [pc |-> "idle", result |-> res]]
    /\ cbLast' = [op |-> IF res = "ok" THEN "success" ELSE "failure", from |-> cb.state,
                  at |-> now, since |-> 0, caller |-> Loop]
    /\ streak' = IF res = "ok" THEN 0
                 ELSE IF cb.state = StateClosed THEN streak + 1 ELSE streak
    /\ hoStreak' = IF res = "ok" /\ cb.state = StateHalfOpen THEN hoStreak + 1 ELSE hoStreak
    /\ CycleBody(res = "ok", sample)

\* One attempt of the retry loop: the wrapped collector answers with `sample`
\* or fails.
CollectAttempt(ok, sample) ==
    /\ pc = "collect"
    /\ attempts < RetryAttempts
    /\ LET r == afterAttempt(cb, ok, attempts + 1) IN
        /\ attempts' = attempts + 1
        /\ outcomes' = outcomes + r.recorded
        /\ collectorFailed' = (collectorFailed \/ ~ok)
        /\ IF r.done
           THEN CollectReturn(r.cb, r.result, sample)
           ELSE /\ AfterCall(r.cb)
                /\ UNCHANGED <<calls, cbLast, streak, hoStreak, engineVars, pipeVars>>
    /\ UNCHANGED <<now, calcVars, scalerVars, fleetVars, histVars, lifeVars, busVars>>

\* ctx is done (the cycle's timeout, or the pipeline was stopped) before an
\* attempt or during the retry delay: fn returns ctx.Err().
CollectCtxDone ==
    /\ pc = "collect"
    /\ attempts < RetryAttempts
    /\ LET r == ctxDone(cb) IN
        /\ outcomes' = outcomes + r.recorded
        /\ CollectReturn(r.cb, r.result, <<>>)
    /\ UNCHANGED <<now, attempts, collectorFailed, calcVars, scalerVars, fleetVars, histVars, lifeVars, busVars>>

\* The collect interval passes: the ticker fires, and a retry delay ends.
CollectTick ==
    /\ Tick
    /\ tickReady' = TRUE
    /\ alerts' = <<>>
    /\ UNCHANGED <<cb, calls, cbLast, streak, hoStreak, callbacks, collVars, calcVars, scalerVars, fleetVars, histVars, lifeVars,
                   busVars, engineVars, servers, tasks, history, pc, scalerCalls,
                   cycleEvents, execErr>>

CollectNext ==
    \/ CollectBegin
    \/ \E sample \in Samples : CollectAttempt(TRUE, sample)
    \/ CollectAttempt(FALSE, <<>>)
    \/ CollectCtxDone
    \/ CycleExecute
    \/ \E i \in 1..MaxCallbacks : OnStateChange(i)
    \/ \E i \in 1..MaxRegistry : ProvisionDone(i)
    \/ \E i \in 1..MaxRegistry : TerminateDone(i)
    \/ CollectTick

(***************************************************************************)
(* The simulator scaler called directly: ScaleUp, ScaleDown and            *)
(* InitializeCluster from any caller, serialised by SimulatorScaler.mu,    *)
(* with the provisioning and termination goroutines running in between.    *)
(***************************************************************************)
MaxCount == 2

NoScaleDown == [held |-> FALSE, picked |-> <<>>]

\* ScaleUp(count), under s.mu.
ScalerScaleUp(count) ==
    /\ ~sdown.held
    /\ Len(servers) + count <= MaxRegistry
    /\ LET r == ScaleUp(servers, tasks, count)
       IN  servers' = r.servers /\ tasks' = r.tasks
    /\ UNCHANGED <<now, sdown, fleetVars, histVars, cbVars, engineVars, history, pc, tickReady, scalerCalls,
                   cycleEvents, execErr, collVars, calcVars, lifeVars, busVars>>

\* InitializeCluster(serverCount), under s.mu: serverCount more active servers.
ScalerInitializeCluster(serverCount) ==
    /\ ~sdown.held
    /\ Len(servers) + serverCount <= MaxRegistry
    /\ servers' = servers \o InitializeCluster(serverCount)
    /\ UNCHANGED <<now, sdown, fleetVars, histVars, tasks, cbVars, engineVars, history, pc, tickReady,
                   scalerCalls, cycleEvents, execErr, collVars, calcVars, lifeVars,
                   busVars>>

\* ScaleDown(count) takes s.mu and reads the active servers; it returns
\* ErrClusterNotFound at once when there is none.
ScalerScaleDownBegin(count) ==
    /\ ~sdown.held
    /\ LET activeServers == GetActiveServers(servers)
           toRemove == IF count > Len(activeServers) THEN Len(activeServers) ELSE count
       IN  sdown' = IF Len(activeServers) = 0 THEN NoScaleDown
                    ELSE [held |-> TRUE, picked |-> SubSeq(activeServers, 1, toRemove)]
    /\ UNCHANGED <<now, servers, tasks, cbVars, engineVars, history, pc, tickReady,
                   scalerCalls, cycleEvents, execErr, collVars, calcVars, lifeVars,
                   busVars, fleetVars, histVars>>

\* ScaleDown's loop, one round: UpdateState(server.ID, Draining) and the
\* simulateTermination goroutine; s.mu is released after the last round.
ScalerScaleDownDrain ==
    /\ sdown.held
    /\ LET i == Head(sdown.picked)
       IN  /\ servers' = UpdateState(servers, i, ServerStateDraining)
           /\ tasks' = tasks \cup {<<"terminate", i>>}
    /\ sdown' = IF Len(sdown.picked) = 1 THEN NoScaleDown
                ELSE [sdown EXCEPT !.picked = Tail(sdown.picked)]
    /\ UNCHANGED <<now, cbVars, engineVars, history, pc, tickReady, scalerCalls,
                   cycleEvents, execErr, collVars, calcVars, lifeVars, busVars, fleetVars, histVars>>

ScalerNext ==
    \/ \E count \in 1..MaxCount : ScalerScaleUp(count)
    \/ \E count \in 1..MaxCount : ScalerScaleDownBegin(count)
    \/ ScalerScaleDownDrain
    \/ \E n \in 1..MaxCount : ScalerInitializeCluster(n)
    \/ \E i \in 1..MaxRegistry : ProvisionDone(i)
    \/ \E i \in 1..MaxRegistry : TerminateDone(i)

(***************************************************************************)
(* Two clusters under one orchestrator: StartCluster has built a pipeline  *)
(* for each, and the two run their cycles in any order.                    *)
(***************************************************************************)
MaxCycles == 3

ClusterA == "A"
ClusterB == "B"
ClusterIds == {ClusterA, ClusterB}

\* The metrics the wrapped collectors return: a CPU above the high threshold.
FleetSamples == {<<85>>}

\* A slip in the wiring: one resilient collector, built once, handed to every
\* pipeline.
collectorOfShared(c) == ClusterA

\* StartCluster: the resilient collector of cluster c's pipeline is the one
\* built in that call.
collectorOf(c) == c

\* StartCluster / NewPipeline: the objects built for one cluster.
NewFleet ==
    [breakers |-> [c \in ClusterIds |-> NewCircuitBreaker],
     pipes |-> [c \in ClusterIds |->
                  [history |-> <<>>, tracker |-> NewSustainedTracker,
                   analyzed |-> NoAnalyzed, cstate |-> NoClusterState,
                   decision |-> NoDecision, lastScaleTime |-> NoTime,
                   servers |-> InitializeCluster(MinServers), tasks |-> {},
                   cycles |-> 0, failed |-> 0, rejected |-> FALSE]]]

\* One cycle of cluster c's pipeline, from collect to execute: the collect is
\* rejected by the breaker, or fails in every attempt, or returns `sample`.
FleetCycle(c, ok, sample) ==
    LET k == collectorOf(c)
        p == fleet.pipes[c]
        r == canExecute(fleet.breakers[k])
        b == IF ~r[1] THEN r[2]
             ELSE IF ok THEN recordSuccess(r[2]) ELSE recordFailure(r[2])
        rc == runCycle(r[1] /\ ok, sample, p, p.servers, p.lastScaleTime)
        ex == IF rc.execute
              THEN execute(rc.decision, p.servers, p.tasks, p.lastScaleTime)
              ELSE [servers |-> p.servers, tasks |-> p.tasks,
                    lastScaleTime |-> p.lastScaleTime]
    IN  /\ p.cycles < MaxCycles
        /\ Len(ex.servers) <= MaxRegistry
        /\ fleet' = [breakers |-> [fleet.breakers EXCEPT ![k] = [b EXCEPT !.spawned = <<>>]],
                     pipes |-> [fleet.pipes EXCEPT ![c] =
                        [history |-> rc.history, tracker |-> rc.tracker,
                         analyzed |-> rc.analyzed, cstate |-> rc.cstate,
                         decision |-> rc.decision,
                         lastScaleTime |-> ex.lastScaleTime,
                         servers |-> ex.servers, tasks |-> ex.tasks,
                         cycles |-> p.cycles + 1,
                         failed |-> IF r[1] /\ ~ok THEN p.failed + 1 ELSE p.failed,
                         rejected |-> ~r[1]]]]
        /\ UNCHANGED <<now, cbVars, engineVars, pipeVars, collVars, calcVars, scalerVars,
                       histVars, lifeVars, busVars>>

FleetTick ==
    /\ Tick
    /\ UNCHANGED <<cbVars, engineVars, pipeVars, collVars, calcVars, scalerVars, fleetVars, histVars,
                   lifeVars, busVars>>

FleetNext ==
    \/ \E c \in ClusterIds, sample \in FleetSamples : FleetCycle(c, TRUE, sample)
    \/ \E c \in ClusterIds : FleetCycle(c, FALSE, <<>>)
    \/ FleetTick

(***************************************************************************)
(* One analyzer given the samples of two clusters: Analyze's bookkeeping   *)
(* of Analyzer.history.                                                    *)
(***************************************************************************)
MaxSnapshots == 32

\* The metrics handed to Analyze.
HistorySamples == {<<>>, <<85>>}

\* analyzer.New: the history map is empty.
NewHistories == [c \in ClusterIds |-> <<>>]

\* Analyze for cluster c on a sample: an empty sample returns before the
\* snapshot is recorded; the timestamp of a sample is its arrival number.
AnalyzeSample(c, sample) ==
    LET h == histories[c]
        timestamp == arrivals[c]
    IN  /\ timestamp < MaxSnapshots
        /\ histories' = [histories EXCEPT ![c] =
                            IF Len(sample) = 0 THEN h
                            ELSE recordSnapshot(h, AvgCPU(sample), timestamp)]
        /\ arrivals' = [arrivals EXCEPT ![c] = IF Len(sample) = 0 THEN @ ELSE @ + 1]
        /\ UNCHANGED <<now, cbVars, engineVars, pipeVars, collVars, calcVars, scalerVars,
                       fleetVars, lifeVars, busVars>>

HistoryNext == \E c \in ClusterIds, sample \in HistorySamples : AnalyzeSample(c, sample)

(***************************************************************************)
(* The event bus (package events): Subscribe, SubscribeAll, Publish and    *)
(* Close under the bus's RWMutex, with the subscribers draining their      *)
(* channels.                                                               *)
(***************************************************************************)
BufferSize == 1                  \* EventBus.bufferSize

Publishers == 1..NumPublishers

\* allEventTypes(), cut down to two of its eleven types.
allEventTypes == {EventTypeAlert, EventTypeError}

NoEvent == [id |-> 0, type |-> ""]

IdlePublish == [pc |-> "idle", ev |-> NoEvent, todo |-> <<>>]

\* NewEventBus
BusInit ==
    /\ subscribers = [t \in allEventTypes |-> <<>>]
    /\ allChans = <<>>
    /\ busClosed = FALSE
    /\ chans = <<>>
    /\ pubs = [p \in Publishers |-> IdlePublish]
    /\ nextEvent = 1
    /\ sentOnClosed = FALSE
    /\ before = {}

\* The goroutines inside Publish: they hold b.mu.RLock().
Readers == {p \in Publishers : pubs[p].pc = "send"}

\* A lock that does not wait for the readers.
CanLockAnytime(rd) == TRUE

\* b.mu.Lock(): granted once no reader holds the lock. The writers of the
\* bus hold it for one step, so no writer is ever seen holding it.
CanLock(rd) == rd = {}

\* make(chan *models.Event, b.bufferSize)
MakeChan(all) ==
    [buf |-> <<>>, closes |-> 0, beforeClose |-> ~busClosed, all |-> all, got |-> <<>>]

\* Subscribe(eventType): one new channel under that type.
Subscribe(t) ==
    /\ CanLock(Readers)
    /\ Len(chans) < MaxChans
    /\ chans' = Append(chans, MakeChan(FALSE))
    /\ subscribers' = [subscribers EXCEPT ![t] = Append(@, Len(chans) + 1)]
    /\ UNCHANGED <<now, cbVars, engineVars, pipeVars, collVars, calcVars, scalerVars, fleetVars, histVars, lifeVars,
                   allChans, busClosed, pubs, nextEvent, sentOnClosed, before>>

\* SubscribeAll: one new channel under every type, remembered in allChans.
SubscribeAll ==
    /\ CanLock(Readers)
    /\ Len(chans) < MaxChans
    /\ chans' = Append(chans, MakeChan(TRUE))
    /\ subscribers' = [t \in allEventTypes |-> Append(subscribers[t], Len(chans) + 1)]
    /\ allChans' = Append(allChans, Len(chans) + 1)
    /\ UNCHANGED <<now, cbVars, engineVars, pipeVars, collVars, calcVars, scalerVars, fleetVars, histVars, lifeVars,
                   busClosed, pubs, nextEvent, sentOnClosed, before>>

\* A slip in Publish: the SubscribeAll channels are served a second time.
publishTargetsAllTwice(subs, all, t) == subs[t] \o all

\* Publish: the channels the event is offered to, b.subscribers[event.Type].
publishTargets(subs, all, t) == subs[t]

\* A send without the select's default case: it waits for room.
sendReadyBlocking(buf) == Len(buf) < BufferSize

\* select { case ch <- event: default: }: never waits.
sendReady(buf) == TRUE

\* The select of Publish on one channel: the event is buffered if there is
\* room and dropped otherwise.
trySend(buf, e) == IF Len(buf) < BufferSize THEN Append(buf, e) ELSE buf

\* A slip in Publish: the closed flag is not looked at.
publishSkipsNothingClosed(closed, targets) == targets = <<>>

\* Publish sends nothing when the bus is closed (it returns at once) or the
\* event's type has no subscriber.
publishSkips(closed, targets) == closed \/ targets = <<>>

\* The publishes that have returned.
Returned == {n \in 1..(nextEvent - 1) : \A p \in Publishers : pubs[p].ev.id # n}

\* Publish, from RLock to the closed check and the read of the subscribers;
\* it returns at once when the bus is closed or the type has no subscriber.
PublishBegin(p, t) ==
    /\ pubs[p].pc = "idle"
    /\ nextEvent <= MaxEvents
    /\ nextEvent' = nextEvent + 1
    /\ before' = before \cup {<<n, nextEvent>> : n \in Returned}
    /\ LET targets == publishTargets(subscribers, allChans, t)
       IN  pubs' = IF publishSkips(busClosed, targets) THEN pubs
                   ELSE [pubs EXCEPT ![p] =
                            [pc |-> "send", ev |-> [id |-> nextEvent, type |-> t],
                             todo |-> targets]]
    /\ UNCHANGED <<now, cbVars, engineVars, pipeVars, collVars, calcVars, scalerVars, fleetVars, histVars, lifeVars,
                   subscribers, allChans, busClosed, chans, sentOnClosed>>

\* Publish, one turn of its loop: the select on the next channel; after the
\* last channel Publish returns (RUnlock).
PublishSend(p) ==
    /\ pubs[p].pc = "send"
    /\ LET c == Head(pubs[p].todo)
       IN  /\ sendReady(chans[c].buf)
           /\ chans' = [chans EXCEPT ![c].buf = trySend(@, pubs[p].ev)]
           /\ sentOnClosed' = (sentOnClosed \/ chans[c].closes > 0)
    /\ pubs' = IF Tail(pubs[p].todo) = <<>>
               THEN [pubs EXCEPT ![p] = IdlePublish]
               ELSE [pubs EXCEPT ![p].todo = Tail(@)]
    /\ UNCHANGED <<now, cbVars, engineVars, pipeVars, collVars, calcVars, scalerVars, fleetVars, histVars, lifeVars,
                   subscribers, allChans, busClosed, nextEvent, before>>

RECURSIVE SubscriberLists(_, _)
\* The lists of b.subscribers one after the other, as Close ranges over them.
SubscriberLists(subs, types) ==
    IF types = {} THEN <<>>
    ELSE LET t == CHOOSE x \in types : TRUE
         IN  subs[t] \o SubscriberLists(subs, types \ {t})

RECURSIVE closeUnclosed(_, _)
\* Close, second loop: close(ch) for each channel not yet in closedChans.
closeUnclosed(list, closedChans) ==
    IF list = <<>> THEN <<>>
    ELSE IF Head(list) \in closedChans
    THEN closeUnclosed(Tail(list), closedChans)
    ELSE <<Head(list)>> \o closeUnclosed(Tail(list), closedChans \cup {Head(list)})

\* A slip in Close: the second loop closes every subscriber channel.
closeCallsNoSkip(all, subs) == all \o SubscriberLists(subs, DOMAIN subs)

\* Close: the channels close(ch) is called on, in order.
closeCalls(all, subs) ==
    all \o closeUnclosed(SubscriberLists(subs, DOMAIN subs),
                         {all[i] : i \in DOMAIN all})

CountIn(list, c) == Cardinality({i \in DOMAIN list : list[i] = c})

\* What Close does to the bus once it holds the lock.
CloseBus ==
    IF busClosed
    THEN UNCHANGED <<busClosed, chans, subscribers, allChans>>
    ELSE /\ busClosed' = TRUE
         /\ LET cc == closeCalls(allChans, subscribers)
            IN  chans' = [c \in DOMAIN chans |->
                            [chans[c] EXCEPT !.closes = @ + CountIn(cc, c)]]
         /\ subscribers' = [t \in allEventTypes |-> <<>>]
         /\ allChans' = <<>>

\* Close
Close ==
    /\ CanLock(Readers)
    /\ CloseBus
    /\ UNCHANGED <<now, cbVars, engineVars, pipeVars, collVars, calcVars, scalerVars, fleetVars, histVars, lifeVars,
                   pubs, nextEvent, sentOnClosed, before>>

\* A subscriber receives the next event of its channel.
Receive(c) ==
    /\ c \in DOMAIN chans
    /\ chans[c].buf # <<>>
    /\ chans' = [chans EXCEPT ![c].buf = Tail(@),
                              ![c].got = Append(@, Head(chans[c].buf))]
    /\ UNCHANGED <<now, cbVars, engineVars, pipeVars, collVars, calcVars, scalerVars, fleetVars, histVars, lifeVars,
                   subscribers, allChans, busClosed, pubs, nextEvent, sentOnClosed, before>>

BusNext ==
    \/ \E t \in allEventTypes : Subscribe(t)
    \/ SubscribeAll
    \/ \E p \in Publishers, t \in allEventTypes : PublishBegin(p, t)
    \/ \E p \in Publishers : PublishSend(p)
    \/ Close
    \/ \E c \in 1..MaxChans : Receive(c)

(***************************************************************************)
(* Pipeline lifecycle (Pipeline.Start/Stop/run) and the orchestrator's     *)
(* StartCluster, StopCluster and Stop, for one cluster id.                 *)
(***************************************************************************)
NoPipeline == 0
NoOne == 0
Worker == 0                      \* the goroutine Orchestrator.Stop starts for the pipeline
Clients == 1..NumClients
Goroutines == {Worker} \cup Clients
PipelineIds == 1..MaxPipelines

Idle == [op |-> "idle", pc |-> "idle", p |-> NoPipeline]
NoStop == [p |-> NoPipeline, inFlight |-> FALSE, loopAlive |-> FALSE]
NoClose == [closed |-> FALSE, timedOut |-> FALSE, inFlight |-> FALSE]

\* wg.Wait of a pipeline returns when none of its run goroutines is left.
LoopsLeft(p) == {l \in 1..Len(loops[p]) : loops[p][l] # "exited"}

InFlight(p) == {l \in 1..Len(loops[p]) : loops[p][l] = "cycle"}

LifeInit ==
    /\ pipelines = NoPipeline
    /\ started = TRUE
    /\ omu = NoOne
    /\ objs = [p \in PipelineIds |-> [created |-> FALSE, running |-> FALSE, cancelled |-> FALSE]]
    /\ loops = [p \in PipelineIds |-> <<>>]
    /\ thr = [g \in Goroutines |-> Idle]
    /\ stopReturned = NoStop
    /\ closeSnap = NoClose

\* A slip in Start: the pipeline is given a fresh context.
StartFreshContext(p) ==
    IF objs[p].running
    THEN [objs |-> objs, loops |-> loops]
    ELSE [objs |-> [objs EXCEPT ![p].running = TRUE, ![p].cancelled = FALSE],
          loops |-> [loops EXCEPT ![p] = Append(@, "start")]]

\* Pipeline.Start under p.mu: nothing if running, else running = true,
\* wg.Add(1) and go p.run().
Start(p) ==
    IF objs[p].running
    THEN [objs |-> objs, loops |-> loops]
    ELSE [objs |-> [objs EXCEPT ![p].running = TRUE],
          loops |-> [loops EXCEPT ![p] = Append(@, "start")]]

\* A mutex that is handed out whoever holds it.
MuFreeAlways(mu) == TRUE

\* o.mu.Lock() is granted when no goroutine holds o.mu.
MuFree(mu) == mu = NoOne

\* Orchestrator.StartCluster, from o.mu.Lock() to the look-up of the id: with
\* a pipeline in the map the call returns its error (and unlocks) at once.
StartCluster(g) ==
    /\ g \in Clients
    /\ thr[g] = Idle
    /\ MuFree(omu)
    /\ pipelines # NoPipeline \/ \E p \in PipelineIds : ~objs[p].created
    /\ IF pipelines # NoPipeline
       THEN /\ thr' = [thr EXCEPT ![g] = [op |-> "StartCluster", pc |-> "failed",
                                          p |-> pipelines]]
            /\ omu' = omu
       ELSE /\ thr' = [thr EXCEPT ![g] = [op |-> "StartCluster", pc |-> "create",
                                          p |-> NoPipeline]]
            /\ omu' = g
    /\ UNCHANGED <<now, cbVars, engineVars, pipeVars, collVars, calcVars, scalerVars, fleetVars, histVars, busVars, pipelines, started, objs, loops,
                   stopReturned, closeSnap>>

\* Orchestrator.StartCluster, the rest under o.mu: NewPipeline, Start, the
\* map entry and the deferred unlock.
StartClusterCreate(g) ==
    /\ thr[g].op = "StartCluster"
    /\ thr[g].pc = "create"
    /\ \E p \in PipelineIds :
        /\ ~objs[p].created
        /\ \A q \in PipelineIds : q < p => objs[q].created
        /\ LET made == [objs EXCEPT ![p].created = TRUE]
               st == [objs |-> [made EXCEPT ![p].running = TRUE],
                      loops |-> [loops EXCEPT ![p] = Append(@, "start")]]
           IN  /\ objs' = st.objs
               /\ loops' = st.loops
               /\ pipelines' = p
    /\ omu' = NoOne
    /\ thr' = [thr EXCEPT ![g] = Idle]
    /\ UNCHANGED <<now, cbVars, engineVars, pipeVars, collVars, calcVars, scalerVars, fleetVars, histVars, busVars, started, stopReturned, closeSnap>>

\* The caller of a failed StartCluster goes on with its error.
StartClusterFailed(g) ==
    /\ thr[g].op = "StartCluster"
    /\ thr[g].pc = "failed"
    /\ thr' = [thr EXCEPT ![g] = Idle]
    /\ UNCHANGED <<now, cbVars, engineVars, pipeVars, collVars, calcVars, scalerVars, fleetVars, histVars, busVars, pipelines, started, omu, objs, loops,
                   stopReturned, closeSnap>>

\* Pipeline.Start called again on an existing pipeline.
PipelineStart(g, p) ==
    /\ thr[g] = Idle
    /\ objs[p].created
    /\ ~objs[p].running
    /\ Len(loops[p]) < MaxLoops
    /\ objs' = Start(p).objs
    /\ loops' = Start(p).loops
    /\ UNCHANGED <<now, cbVars, engineVars, pipeVars, collVars, calcVars, scalerVars, fleetVars, histVars, busVars, pipelines, started, omu, thr, stopReturned, closeSnap>>

\* A call of Pipeline.Stop made directly on a pipeline.
PipelineStop(g, p) ==
    /\ g \in Clients
    /\ thr[g] = Idle
    /\ objs[p].created
    /\ thr' = [thr EXCEPT ![g] = [op |-> "Stop", pc |-> "lock", p |-> p]]
    /\ UNCHANGED <<now, cbVars, engineVars, pipeVars, collVars, calcVars, scalerVars, fleetVars, histVars, busVars, pipelines, started, omu, objs, loops,
                   stopReturned, closeSnap>>

\* Orchestrator.StopCluster: o.mu is taken and held until the deferred unlock;
\* without a pipeline for the id the call fails and changes nothing.
StopCluster(g) ==
    /\ g \in Clients
    /\ thr[g] = Idle
    /\ MuFree(omu)
    /\ pipelines # NoPipeline
    /\ omu' = g
    /\ thr' = [thr EXCEPT ![g] = [op |-> "StopCluster", pc |-> "lock", p |-> pipelines]]
    /\ UNCHANGED <<now, cbVars, engineVars, pipeVars, collVars, calcVars, scalerVars, fleetVars, histVars, busVars, pipelines, started, objs, loops,
                   stopReturned, closeSnap>>

\* What follows the return of Pipeline.Stop in its caller: StopCluster deletes
\* the map entry and unlocks o.mu; the other callers are done.
StopReturns(g) ==
    /\ stopReturned' = [p |-> thr[g].p, inFlight |-> InFlight(thr[g].p) # {},
                        loopAlive |-> LoopsLeft(thr[g].p) # {}]
    /\ thr' = [thr EXCEPT ![g] = Idle]
    /\ IF thr[g].op = "StopCluster"
       THEN pipelines' = NoPipeline /\ omu' = NoOne
       ELSE UNCHANGED <<pipelines, omu>>

\* Pipeline.Stop, under p.mu: return at once if not running, else running = false.
StopLock(g) ==
    /\ thr[g].pc = "lock"
    /\ IF ~objs[thr[g].p].running
       THEN StopReturns(g) /\ UNCHANGED objs
       ELSE /\ objs' = [objs EXCEPT ![thr[g].p].running = FALSE]
            /\ thr' = [thr EXCEPT ![g].pc = "cancel"]
            /\ UNCHANGED <<pipelines, omu, stopReturned, closeSnap>>
    /\ UNCHANGED <<now, cbVars, engineVars, pipeVars, collVars, calcVars, scalerVars, fleetVars, histVars, busVars, started, loops, closeSnap>>

\* Pipeline.Stop: p.cancel().
StopCancel(g) ==
    /\ thr[g].pc = "cancel"
    /\ objs' = [objs EXCEPT ![thr[g].p].cancelled = TRUE]
    /\ thr' = [thr EXCEPT ![g].pc = "wait"]
    /\ UNCHANGED <<now, cbVars, engineVars, pipeVars, collVars, calcVars, scalerVars, fleetVars, histVars, busVars, pipelines, started, omu, loops,
                   stopReturned, closeSnap>>

\* Pipeline.Stop: p.wg.Wait() returns and so does Stop.
StopWait(g) ==
    /\ thr[g].pc = "wait"
    /\ LoopsLeft(thr[g].p) = {}
    /\ StopReturns(g)
    /\ UNCHANGED <<now, cbVars, engineVars, pipeVars, collVars, calcVars, scalerVars, fleetVars, histVars, busVars, started, objs, loops, closeSnap>>

\* Orchestrator.Stop, first critical section: started = false.
OrchStop(g) ==
    /\ g \in Clients
    /\ thr[g] = Idle
    /\ omu = NoOne
    /\ started
    /\ started' = FALSE
    /\ thr' = [thr EXCEPT ![g] = [op |-> "OrchStop", pc |-> "spawn", p |-> NoPipeline]]
    /\ UNCHANGED <<now, cbVars, engineVars, pipeVars, collVars, calcVars, scalerVars, fleetVars, histVars, busVars, pipelines, omu, objs, loops, stopReturned, closeSnap>>

\* Orchestrator.Stop, under the read lock: one goroutine per pipeline of the
\* map, each calling p.Stop().
OrchStopSpawn(g) ==
    /\ thr[g].op = "OrchStop"
    /\ thr[g].pc = "spawn"
    /\ omu = NoOne
    /\ thr' = [thr EXCEPT ![g].pc = "select",
                          ![Worker] = IF pipelines = NoPipeline THEN Idle
                                      ELSE [op |-> "Stop", pc |-> "lock", p |-> pipelines]]
    /\ UNCHANGED <<now, cbVars, engineVars, pipeVars, collVars, calcVars, scalerVars, fleetVars, histVars, busVars, pipelines, started, omu, objs, loops,
                   stopReturned, closeSnap>>

\* Orchestrator.Stop, the select: every p.Stop() has returned (done); then
\* the persister is cancelled and eventBus.Close() is called.
OrchStopDone(g) ==
    /\ thr[g].op = "OrchStop"
    /\ thr[g].pc = "select"
    /\ thr[Worker] = Idle
    /\ thr' = [thr EXCEPT ![g] = Idle]
    /\ CanLock(Readers)
    /\ CloseBus
    /\ closeSnap' = [closed |-> TRUE, timedOut |-> FALSE,
                     inFlight |-> \E p \in PipelineIds : InFlight(p) # {}]
    /\ UNCHANGED <<now, cbVars, engineVars, pipeVars, collVars, calcVars, scalerVars, fleetVars, histVars, pipelines, started, omu, objs, loops,
                   stopReturned, pubs, nextEvent, sentOnClosed, before>>

\* Orchestrator.Stop, the select: ctx expired before the pipelines stopped;
\* the persister is cancelled and eventBus.Close() is called all the same.
OrchStopTimeout(g) ==
    /\ thr[g].op = "OrchStop"
    /\ thr[g].pc = "select"
    /\ thr[Worker] # Idle
    /\ thr' = [thr EXCEPT ![g] = Idle]
    /\ CanLock(Readers)
    /\ CloseBus
    /\ closeSnap' = [closed |-> TRUE, timedOut |-> TRUE,
                     inFlight |-> \E p \in PipelineIds : InFlight(p) # {}]
    /\ UNCHANGED <<now, cbVars, engineVars, pipeVars, collVars, calcVars, scalerVars, fleetVars, histVars, pipelines, started, omu, objs, loops,
                   stopReturned, pubs, nextEvent, sentOnClosed, before>>

\* run: the goroutine gets to run and enters runCycle, whatever the context.
LoopBegin(p, l) ==
    /\ l \in 1..Len(loops[p])
    /\ loops[p][l] = "start"
    /\ loops' = [loops EXCEPT ![p][l] = "cycle"]
    /\ UNCHANGED <<now, cbVars, engineVars, pipeVars, collVars, calcVars, scalerVars, fleetVars, histVars, busVars, pipelines, started, omu, objs, thr,
                   stopReturned, closeSnap>>

\* runCycle returns; the loop is back at its select.
CycleEnd(p, l) ==
    /\ l \in 1..Len(loops[p])
    /\ loops[p][l] = "cycle"
    /\ loops' = [loops EXCEPT ![p][l] = "select"]
    /\ UNCHANGED <<now, cbVars, engineVars, pipeVars, collVars, calcVars, scalerVars, fleetVars, histVars, busVars, pipelines, started, omu, objs, thr,
                   stopReturned, closeSnap>>

\* run, the select: a tick is received and the next cycle starts.
LoopTick(p, l) ==
    /\ l \in 1..Len(loops[p])
    /\ loops[p][l] = "select"
    /\ loops' = [loops EXCEPT ![p][l] = "cycle"]
    /\ UNCHANGED <<now, cbVars, engineVars, pipeVars, collVars, calcVars, scalerVars, fleetVars, histVars, busVars, pipelines, started, omu, objs, thr,
                   stopReturned, closeSnap>>

\* run, the select: ctx.Done() is received; the loop returns and wg.Done() runs.
LoopExit(p, l) ==
    /\ l \in 1..Len(loops[p])
    /\ loops[p][l] = "select"
    /\ objs[p].cancelled
    /\ loops' = [loops EXCEPT ![p][l] = "exited"]
    /\ UNCHANGED <<now, cbVars, engineVars, pipeVars, collVars, calcVars, scalerVars, fleetVars, histVars, busVars, pipelines, started, omu, objs, thr,
                   stopReturned, closeSnap>>

\* StartCluster and StopCluster alone, with the pipelines' loops.
OrchNext ==
    \/ \E g \in Clients : StartCluster(g)
    \/ \E g \in Clients : StartClusterCreate(g)
    \/ \E g \in Clients : StartClusterFailed(g)
    \/ \E g \in Clients : StopCluster(g)
    \/ \E g \in Goroutines : StopLock(g)
    \/ \E g \in Goroutines : StopCancel(g)
    \/ \E g \in Goroutines : StopWait(g)
    \/ \E p \in PipelineIds, l \in 1..MaxLoops : LoopBegin(p, l)
    \/ \E p \in PipelineIds, l \in 1..MaxLoops : CycleEnd(p, l)
    \/ \E p \in PipelineIds, l \in 1..MaxLoops : LoopTick(p, l)
    \/ \E p \in PipelineIds, l \in 1..MaxLoops : LoopExit(p, l)

\* One cluster's pipeline started by StartCluster, then stopped and started
\* again by direct calls of Pipeline.Stop and Pipeline.Start.
RestartNext ==
    \/ \E g \in Clients : StartCluster(g)
    \/ \E g \in Clients : StartClusterCreate(g)
    \/ \E g \in Clients : StartClusterFailed(g)
    \/ \E g \in Clients, p \in PipelineIds : PipelineStart(g, p)
    \/ \E g \in Clients, p \in PipelineIds : PipelineStop(g, p)
    \/ \E g \in Goroutines : StopLock(g)
    \/ \E g \in Goroutines : StopCancel(g)
    \/ \E g \in Goroutines : StopWait(g)
    \/ \E p \in PipelineIds, l \in 1..MaxLoops : LoopBegin(p, l)
    \/ \E p \in PipelineIds, l \in 1..MaxLoops : CycleEnd(p, l)
    \/ \E p \in PipelineIds, l \in 1..MaxLoops : LoopTick(p, l)
    \/ \E p \in PipelineIds, l \in 1..MaxLoops : LoopExit(p, l)

LifeNext ==
    \/ \E g \in Clients : StartCluster(g)
    \/ \E g \in Clients : StartClusterCreate(g)
    \/ \E g \in Clients : StartClusterFailed(g)
    \/ \E g \in Clients : StopCluster(g)
    \/ \E g \in Clients : OrchStop(g)
    \/ \E g \in Clients : OrchStopSpawn(g)
    \/ \E g \in Clients : OrchStopDone(g)
    \/ \E g \in Clients : OrchStopTimeout(g)
    \/ \E g \in Clients, p \in PipelineIds : PipelineStart(g, p)
    \/ \E g \in Clients, p \in PipelineIds : PipelineStop(g, p)
    \/ \E g \in Goroutines : StopLock(g)
    \/ \E g \in Goroutines : StopCancel(g)
    \/ \E g \in Goroutines : StopWait(g)
    \/ \E p \in PipelineIds, l \in 1..MaxLoops : LoopBegin(p, l)
    \/ \E p \in PipelineIds, l \in 1..MaxLoops : CycleEnd(p, l)
    \/ \E p \in PipelineIds, l \in 1..MaxLoops : LoopTick(p, l)
    \/ \E p \in PipelineIds, l \in 1..MaxLoops : LoopExit(p, l)

(***************************************************************************)
(* Specifications                                                          *)
(***************************************************************************)
Init ==
    /\ now = 0 /\ CBInit /\ EngineInit /\ PipeInit /\ LifeInit /\ BusInit /\ CollectInit
    /\ calc = NoCalc
    /\ prev = NoPrev
    /\ sdown = NoScaleDown
    /\ fleet = NewFleet
    /\ histories = NewHistories
    /\ arrivals = [c \in ClusterIds |-> 0]

\* The breaker and the engine on their own: the cluster at its minimum size.
InitAll == Init /\ Len(servers) = MinServers

Spec == Init /\ [][Next]_vars

SpecCB == InitAll /\ [][CBNext]_vars

SpecCollect == InitAll /\ [][CollectNext]_vars

SpecScaler == InitAll /\ [][ScalerNext]_vars

SpecFleet == InitAll /\ [][FleetNext]_vars

SpecHistory == InitAll /\ [][HistoryNext]_vars

SpecCalc == InitAll /\ [][CalcNext]_vars

\* The engine before a first Decide call, for every analyzed sample and cluster
\* state the call can be given.
AgainInit ==
    /\ now = 0 /\ CBInit /\ PipeInit /\ LifeInit /\ BusInit /\ CollectInit
    /\ Len(servers) = MinServers
    /\ calc = NoCalc
    /\ prev = NoPrev
    /\ sdown = NoScaleDown
    /\ fleet = NewFleet
    /\ histories = NewHistories
    /\ arrivals = [c \in ClusterIds |-> 0]
    /\ lastScaleTime = NoTime
    /\ tracker = NewSustainedTracker
    /\ analyzed \in AnalyzedInputs
    /\ cstate \in ClusterStates
    /\ decision = NoDecision
    /\ d1 = NoD1
    /\ recorded = FALSE

SpecAgain == AgainInit /\ [][AgainNext]_vars

SpecDecide == InitAll /\ [][DecideNext]_vars

SpecLife == InitAll /\ [][LifeNext]_vars

SpecBus == InitAll /\ [][BusNext]_vars

SpecOrch == InitAll /\ [][OrchNext]_vars

SpecRestart == InitAll /\ [][RestartNext]_vars


(***************************************************************************)
(* Claims about the circuit breaker, checked under SpecCB.                 *)
(***************************************************************************)

\* C6: starting from Closed, the breaker is Open right after MaxFailures failed
\* Execute calls with no successful Execute between them, and not after fewer;
\* while Open and less than Timeout after the last failure, an Execute is
\* rejected with ErrCircuitOpen without running fn and the breaker stays Open.
C6_OpensAfterMaxFailuresAndRejects ==
    /\ (cb.state = StateClosed => streak < MaxFailures)
    /\ (cbLast.op = "failure" /\ cbLast.from = StateClosed =>
            (cb.state = StateOpen <=> streak = MaxFailures))
    /\ (cbLast.op \in {"admit", "reject"} /\ cbLast.from = StateOpen
            /\ cbLast.since < Timeout =>
            /\ cbLast.op = "reject"
            /\ cb.state = StateOpen
            /\ calls[cbLast.caller] = [pc |-> "idle", result |-> "circuit_open"])

C6_Witness ==
    /\ cb.state = StateOpen
    /\ streak = MaxFailures
    /\ cbLast.op = "reject"
    /\ cbLast.since < Timeout

\* C7: from Open, an Execute attempted when now - lastFailTime >= Timeout is
\* admitted and puts the breaker in Half-Open; successes recorded in Half-Open
\* keep it Half-Open until HalfOpenMax of them have completed, and then it is
\* Closed with failures = 0.
C7_AdmittedAtTimeout ==
    /\ (cbLast.op \in {"admit", "reject"} /\ cbLast.from = StateOpen
            /\ cbLast.since >= Timeout =>
            cbLast.op = "admit" /\ cb.state = StateHalfOpen)
    /\ (cbLast.op = "success" /\ cbLast.from = StateHalfOpen =>
            IF hoStreak >= HalfOpenMax
            THEN cb.state = StateClosed /\ cb.failures = 0
            ELSE cb.state = StateHalfOpen)

\* C8: a failure recorded in Half-Open moves the breaker to Open with both
\* counters 0 and lastFailTime the time of that failure, so an admission from
\* Open never comes before the timeout has run again.
C8_HalfOpenFailureReopens ==
    /\ (cbLast.op = "failure" /\ cbLast.from = StateHalfOpen =>
            /\ cb.state = StateOpen
            /\ cb.failures = 0
            /\ cb.successes = 0
            /\ cb.lastFailTime = cbLast.at)
    /\ (cb.state = StateOpen => cb.lastFailTime # NoTime /\ cb.lastFailTime <= now)
    /\ (cbLast.op = "admit" /\ cbLast.from = StateOpen => cbLast.since >= Timeout)

C8_Witness ==
    /\ cbLast.op = "failure"
    /\ cbLast.from = StateHalfOpen
    /\ cb.state = StateOpen
    /\ now > 0

(***************************************************************************)
(* Claims about the decision engine, checked under SpecDecide.             *)
(***************************************************************************)

\* C3: when the decision before this one was a scale-up that was executed and
\* recorded, this decision comes less than CooldownPeriod after it and is not
\* an emergency, then this decision is Maintain with CooldownActive set; and
\* CooldownActive is set only while less than CooldownPeriod has passed since
\* the recorded scaling, so it is false again once the period has elapsed.
C3_CooldownBlocksNextDecision ==
    /\ (d1.Action = ActionScaleUp
            /\ decision.Timestamp - d1.Timestamp < CooldownPeriod
            /\ ~decision.IsEmergency =>
            decision.Action = ActionMaintain /\ decision.CooldownActive)
    /\ (decision.CooldownActive /\ ~recorded =>
            lastScaleTime # NoTime /\ decision.Timestamp - lastScaleTime < CooldownPeriod)
    /\ (decision.Timestamp # NoTime /\ ~recorded /\ ~decision.IsEmergency
            /\ lastScaleTime # NoTime
            /\ decision.Timestamp - lastScaleTime < CooldownPeriod =>
            decision.CooldownActive)

\* A decision held back by the cooldown although the cycle had a trigger and
\* room to scale up.
C3_Witness ==
    /\ d1.Action = ActionScaleUp
    /\ decision.Timestamp - d1.Timestamp < CooldownPeriod
    /\ decision.CooldownActive
    /\ analyzed.HasSpike
    /\ CanScaleUp(cstate, MaxServers)

\* C4: a decision made for an average CPU at or above EmergencyCPUThreshold
\* while TotalServers < MaxServers is a scale-up marked IsEmergency, whether or
\* not the cluster is in its cooldown.
C4_EmergencyOverridesCooldown ==
    decision.Timestamp # NoTime /\ analyzed.AvgCPU >= EmergencyCPUThreshold
        /\ cstate.TotalServers < MaxServers =>
        /\ decision.Action = ActionScaleUp
        /\ decision.IsEmergency
        /\ ~decision.CooldownActive

\* An emergency scale-up decided inside the cooldown of a recorded scale-up.
C4_Witness ==
    /\ d1.Action = ActionScaleUp
    /\ decision.Timestamp - d1.Timestamp < CooldownPeriod
    /\ analyzed.AvgCPU >= EmergencyCPUThreshold
    /\ cstate.TotalServers < MaxServers
    /\ decision.Action = ActionScaleUp
    /\ decision.IsEmergency

\* C5: a decision made while TotalServers >= MaxServers is never a scale-up,
\* the emergency path included.
C5_NoScaleUpAtMaxServers ==
    decision.Timestamp # NoTime /\ cstate.TotalServers >= MaxServers =>
        decision.Action # ActionScaleUp

(***************************************************************************)
(* Claims about the pipeline over the simulator scaler, checked under Spec.*)
(***************************************************************************)

\* C1: once a scale-up has been executed without error, the cluster's active
\* plus provisioning servers number at most MaxServers.
C1_ScaleUpWithinMaxServers ==
    recorded /\ decision.Action = ActionScaleUp =>
        GetClusterState(servers).ActiveServers
            + GetClusterState(servers).ProvisioningCnt <= MaxServers

\* C10: a cycle makes at most one ScaleUp/ScaleDown call, and makes it only for
\* a decision whose action is not Maintain and whose CooldownActive is false.
C10_AtMostOneScalerCallPerCycle ==
    /\ scalerCalls <= 1
    /\ (scalerCalls > 0 =>
            decision.Action # ActionMaintain /\ ~decision.CooldownActive)
    /\ (pc = "execute" => ShouldExecute(decision) /\ scalerCalls = 0)

\* A cycle that made its one call, a scale-down, after earlier cycles had
\* scaled up and had been held back by the cooldown.
C10_Witness ==
    /\ scalerCalls = 1
    /\ pc = "wait"
    /\ decision.Action = ActionScaleDown
    /\ recorded
    /\ Len(servers) > MaxServers

(***************************************************************************)
(* Claims about the pipeline lifecycle, checked under SpecLife.            *)
(***************************************************************************)

\* C2: at no instant are two pipeline cycles of the cluster id executing.
C2_AtMostOneCycleInFlight ==
    Cardinality({pl \in PipelineIds \X (1..MaxLoops) :
                    pl[2] <= Len(loops[pl[1]]) /\ loops[pl[1]][pl[2]] = "cycle"}) <= 1

\* C9: when a call of Pipeline.Stop has returned, no cycle of that pipeline was
\* in flight at the return and every run goroutine of it had exited.
C9_StopReturnsAfterLoopExit ==
    stopReturned.p # NoPipeline => ~stopReturned.inFlight /\ ~stopReturned.loopAlive

\* C11: the cooldown stamp lastScaleTime is set exactly when the scaler call
\* of execute returned without an error, and then to the time of the call;
\* when the scaler returned an error (invalid target) execute publishes
\* scaling_failed after scaling_started and leaves lastScaleTime as it was,
\* and no other step of the pipeline changes lastScaleTime.
C11_ScaleTimeSetIffScalerSucceeded ==
    [][/\ (pc = "execute" /\ pc' = "wait" /\ execErr' = NoErr)
            => /\ lastScaleTime' = now
               /\ cycleEvents' = cycleEvents
                      \o <<EventTypeScalingStarted, EventTypeScalingComplete>>
       /\ (pc = "execute" /\ pc' = "wait" /\ execErr' # NoErr)
            => /\ lastScaleTime' = lastScaleTime
               /\ cycleEvents' = cycleEvents
                      \o <<EventTypeScalingStarted, EventTypeScalingFailed>>
       /\ pc # "execute" => lastScaleTime' = lastScaleTime]_vars

\* C11: a scaler call failed with an invalid target in a cycle that came
\* after a recorded scaling, and the earlier stamp is still there.
C11_Witness ==
    /\ pc = "wait"
    /\ scalerCalls = 1
    /\ execErr = ErrInvalidTarget
    /\ ~recorded
    /\ lastScaleTime # NoTime
    /\ lastScaleTime < now
    /\ cycleEvents[Len(cycleEvents)] = EventTypeScalingFailed

\* C12: a cycle whose collection fails publishes one error event and nothing
\* else, and leaves the analyzer history, the sustained tracker's timers,
\* lastScaleTime, the scaler's registry with its pending goroutines and the
\* last decision as they were: no decision is made and no scaler call; the
\* loop then waits for the next tick, on which the next cycle can run.
C12_CollectFailureChangesNothing ==
    [][CycleCollectFail
         => /\ cycleEvents' = <<EventTypeError>>
            /\ UNCHANGED <<history, tracker, lastScaleTime, servers, tasks,
                           decision, analyzed, cstate>>
            /\ scalerCalls' = 0
            /\ pc' = "wait"
            /\ ~tickReady']_vars

\* C12: a collection failed in a pipeline that had a history, a running
\* sustained-high timer, a cooldown stamp and a server still provisioning.
C12_Witness ==
    /\ cycleEvents = <<EventTypeError>>
    /\ pc = "wait"
    /\ scalerCalls = 0
    /\ history # <<>>
    /\ tracker.high # NoTime
    /\ lastScaleTime # NoTime
    /\ tasks # {}

\* C13: when a stage of a cycle panics, the run loop recovers: it publishes
\* an error event, the cycle is over and the loop waits for the next tick;
\* the loop is never gone.
C13_LoopRecoversFromPanic ==
    [][CyclePanic
         => /\ pc' = "wait"
            /\ cycleEvents' # <<>>
            /\ cycleEvents'[Len(cycleEvents')] = EventTypeError]_vars

\* The events a subscriber has seen on its channel or still has buffered.
Seen(c) == chans[c].got \o chans[c].buf

SeenIds(c) == {Seen(c)[i].id : i \in DOMAIN Seen(c)}

\* C14: Publish never waits on a subscriber: inside its loop the next send
\* can always be made at once, it buffers the event when the channel has
\* room and drops it for that channel alone when the buffer is full, and
\* the loop goes on to the remaining subscribers of the event's type.
C14_PublishNeverWaits ==
    /\ [](\A p \in Publishers : pubs[p].pc = "send" => ENABLED PublishSend(p))
    /\ [][\A p \in Publishers :
            /\ (pubs[p].pc = "idle" /\ pubs'[p].pc = "send")
                 => pubs'[p].todo = subscribers[pubs'[p].ev.type]
            /\ (pubs[p].pc = "send" /\ pubs'[p] # pubs[p])
                 => LET c == Head(pubs[p].todo)
                    IN  /\ pubs'[p] = IF Len(pubs[p].todo) = 1 THEN IdlePublish
                                      ELSE [pubs[p] EXCEPT !.todo = Tail(@)]
                        /\ chans'[c].buf =
                             IF Len(chans[c].buf) < BufferSize
                             THEN Append(chans[c].buf, pubs[p].ev)
                             ELSE chans[c].buf
                        /\ \A k \in DOMAIN chans : k # c => chans'[k] = chans[k]]_vars

\* C14: an event was dropped for a subscriber whose buffer was full and
\* never drained, and delivered to another subscriber of the same type.
C14_Witness ==
    \E t \in allEventTypes, n \in Returned :
        \E i, j \in DOMAIN subscribers[t] :
            LET c1 == subscribers[t][i]
                c2 == subscribers[t][j]
            IN  /\ c1 # c2
                /\ chans[c1].got = <<>>
                /\ Len(chans[c1].buf) = BufferSize
                /\ \A k \in DOMAIN chans[c1].buf : <<chans[c1].buf[k].id, n>> \in before
                /\ n \notin SeenIds(c1)
                /\ \E k \in DOMAIN Seen(c2) : Seen(c2)[k] = [id |-> n, type |-> t]

\* C15: no channel is ever closed twice; before Close no channel is closed,
\* and once Close has run (however often it is called) every channel that
\* Subscribe or SubscribeAll returned before it has been closed exactly once.
C15_ChannelsClosedExactlyOnce ==
    \A c \in DOMAIN chans :
        /\ chans[c].closes <= 1
        /\ chans[c].beforeClose => chans[c].closes = (IF busClosed THEN 1 ELSE 0)

\* C15: the bus was closed with a SubscribeAll channel and a Subscribe
\* channel handed out; each has been closed once.
C15_Witness ==
    /\ busClosed
    /\ \E c1, c2 \in DOMAIN chans :
        /\ chans[c1].all /\ chans[c1].beforeClose /\ chans[c1].closes = 1
        /\ ~chans[c2].all /\ chans[c2].beforeClose /\ chans[c2].closes = 1

C18_OnePipelinePerId ==
    /\ [](\A p \in PipelineIds :
            (objs[p].running \/ LoopsLeft(p) # {}) => pipelines = p)
    /\ [][\A g \in Clients :
            (thr[g] = Idle /\ thr'[g].pc = "failed")
              => /\ pipelines # NoPipeline
                 /\ thr'[g].p = pipelines
                 /\ objs[pipelines].running
                 /\ UNCHANGED <<pipelines, objs, loops>>]_vars

\* C18: a StartCluster failed on the second pipeline of the id, made after
\* a StopCluster, while that pipeline's cycle was in flight.
C18_Witness ==
    \E g \in Clients :
        /\ thr[g].op = "StartCluster" /\ thr[g].pc = "failed"
        /\ thr[g].p = pipelines
        /\ pipelines = MaxPipelines
        /\ objs[pipelines].running
        /\ InFlight(pipelines) # {}

\* C19: when Orchestrator.Stop closes the event bus without its ctx having
\* expired, no pipeline cycle is in flight.
C19_NoCycleInFlightAtBusClose ==
    (closeSnap.closed /\ ~closeSnap.timedOut) => ~closeSnap.inFlight

\* The started callbacks that will publish the breaker's alert.
Owed(q) == Cardinality({i \in DOMAIN q : q[i][2] = StateOpen})

\* C20: every step that moves the breaker into Open, from Closed or from
\* Half-Open, starts one callback that will publish the warning alert, no
\* other step starts one, and an alert is published only by one of these
\* callbacks, which is then used up: one alert for each transition into Open.
\* An Execute rejected while the breaker is Open starts no callback and
\* publishes nothing.
C20_OneAlertPerOpening ==
    [][/\ Owed(callbacks') + Len(alerts')
            = Owed(callbacks)
              + (IF cb.state # StateOpen /\ cb'.state = StateOpen THEN 1 ELSE 0)
       /\ \A k \in DOMAIN alerts' :
            /\ alerts'[k].type = EventTypeAlert
            /\ alerts'[k].severity = "warning"
            /\ alerts'[k].to = StateOpen
       /\ (cbLast'.op = "reject" /\ cbLast' # cbLast)
            => (callbacks' = callbacks /\ alerts' = <<>>)]_vars

\* C20: the alert of a transition from Half-Open into Open has just been
\* published; no callback is left and the breaker is still Open.
C20_Witness ==
    /\ alerts = <<[type |-> EventTypeAlert, severity |-> "warning",
                   from |-> StateHalfOpen, to |-> StateOpen]>>
    /\ callbacks = <<>>
    /\ cb.state = StateOpen

\* C21: while the breaker is Open and its timeout has not elapsed, a pipeline
\* cycle makes no call to the wrapped collector and publishes no event. The
\* first half holds; the second does not: runCycle publishes an error event
\* for the ErrCircuitOpen that collect returned.
C21_RejectedCycleIsSilent ==
    (cbLast.op = "reject" /\ calls[Loop].result = "circuit_open")
        => (attempts = 0 /\ cycleEvents = <<>>)

\* C22: one Collect call passes the breaker's admission once and records
\* exactly one outcome, a success if one of its up to RetryAttempts attempts
\* succeeded and a failure otherwise; the breaker opens from Closed at the
\* MaxFailures-th failed Collect call in a row, and a rejected Collect makes
\* no attempt and records nothing.
C22_OneOutcomePerCollect ==
    /\ attempts <= RetryAttempts
    /\ outcomes <= 1
    /\ calls[Loop].pc = "running" => (outcomes = 0 /\ cbLast.op = "admit")
    /\ cbLast.op = "success" =>
          (outcomes = 1 /\ attempts >= 1 /\ calls[Loop].result = "ok")
    /\ cbLast.op = "failure" => (outcomes = 1 /\ calls[Loop].result = "err")
    /\ cbLast.op = "reject" =>
          (outcomes = 0 /\ attempts = 0 /\ cbLast.from = StateOpen
           /\ calls[Loop].result = "circuit_open")
    /\ (cbLast.op = "failure" /\ cbLast.from = StateClosed) =>
          (cb.state = StateOpen <=> streak = MaxFailures)

\* Two Collect calls failed with every attempt used, and the breaker opened
\* at the second.
C22_Witness ==
    /\ cbLast.op = "failure"
    /\ cbLast.from = StateClosed
    /\ cb.state = StateOpen
    /\ streak = MaxFailures
    /\ attempts = RetryAttempts
    /\ outcomes = 1

\* C23: the pipeline calls the scaler's ScaleDown only while more than
\* MinServers servers are active, in the snapshot the decision was made on and
\* in the registry at the call; the call drains one active server, and after
\* it the active and provisioning servers number at least MinServers.
C23_ScaleDownKeepsMinServers ==
    [][(CycleExecute /\ decision.Action = ActionScaleDown) =>
          /\ cstate.ActiveServers > MinServers
          /\ GetClusterState(servers).ActiveServers > MinServers
          /\ execErr' = NoErr
          /\ GetClusterState(servers').ActiveServers
                = GetClusterState(servers).ActiveServers - 1
          /\ GetClusterState(servers').ActiveServers
                + GetClusterState(servers').ProvisioningCnt >= MinServers]_vars

\* C23: a scale-down was executed that left exactly MinServers active servers
\* and none provisioning.
C23_Witness ==
    /\ pc = "wait"
    /\ recorded
    /\ decision.Action = ActionScaleDown
    /\ scalerCalls = 1
    /\ GetClusterState(servers).ActiveServers = MinServers
    /\ GetClusterState(servers).ProvisioningCnt = 0
    /\ GetClusterState(servers).DrainingCount >= 1

\* C24: a ScaleDown decision is made only for a cluster with more than
\* MinServers active servers, a trend that is not rising, an average CPU below
\* CPULowThreshold and no cooldown running when Decide is called; its target
\* is one server less than the active servers.
C24_ScaleDownConditions ==
    [][decision'.Action = ActionScaleDown /\ decision' # decision =>
          /\ cstate'.ActiveServers > MinServers
          /\ analyzed'.Trend # TrendRising
          /\ analyzed'.AvgCPU < CPULowThreshold
          /\ ~isInCooldown(lastScaleTime)
          /\ ~decision'.CooldownActive
          /\ ~decision'.IsEmergency
          /\ decision'.CurrentServers = cstate'.ActiveServers
          /\ decision'.TargetServers = cstate'.ActiveServers - 1]_vars

\* C24: a ScaleDown decision made after a recorded scaling whose cooldown had
\* run out.
C24_Witness ==
    /\ decision.Action = ActionScaleDown
    /\ decision.TargetServers = decision.CurrentServers - 1
    /\ lastScaleTime # NoTime
    /\ lastScaleTime < decision.Timestamp
    /\ ~recorded

\* C25: every emergency decision targets MaxScaleStep servers more than the
\* current ones, capped at MaxServers. Decide passes the number 3 whatever
\* MaxScaleStep is configured.
C25_EmergencyAddsMaxScaleStep ==
    decision.IsEmergency =>
        decision.TargetServers =
            IF decision.CurrentServers + MaxScaleStep > MaxServers THEN MaxServers
            ELSE decision.CurrentServers + MaxScaleStep

\* C26: the non-emergency scale-up step is
\* clamp(ceil(active * avgCpu / targetCpu) - active, 1, MaxScaleStep).
\* calculateScaleUpDelta truncates the product where the claim rounds it up.
C26_StepIsClampedCeiling ==
    calc.ActiveServers > 0 =>
        LET p == calc.ActiveServers * calc.AvgCPU
            ideal == IF p % TargetCPU = 0 THEN p \div TargetCPU ELSE (p \div TargetCPU) + 1
            d == ideal - calc.ActiveServers
        IN  calc.delta = IF d < 1 THEN 1 ELSE IF d > MaxScaleStep THEN MaxScaleStep ELSE d

\* The fields of a decision that C27 compares.
SameDecision(d, e) ==
    /\ d.Action = e.Action
    /\ d.TargetServers = e.TargetServers
    /\ d.Reason = e.Reason
    /\ d.IsEmergency = e.IsEmergency
    /\ d.CooldownActive = e.CooldownActive

\* What Decide reads off the clock at time t: whether the cooldown is running
\* and whether the sustained-high and sustained-low durations have been
\* reached.
ClockSide(t) ==
    <<lastScaleTime # NoTime /\ t - lastScaleTime < CooldownPeriod,
      analyzed.SustainedHighAt # NoTime
          /\ t - analyzed.SustainedHighAt >= SustainedHighDuration,
      analyzed.SustainedLowAt # NoTime
          /\ t - analyzed.SustainedLowAt >= SustainedLowDuration>>

\* C27 as stated: Decide leaves lastScaleTime alone, and a Decide call that
\* follows another with the same analyzed metrics and cluster state and no
\* RecordScaling between them returns the same action, target, reason,
\* emergency flag and cooldown flag. Fails when the cooldown ends, or a
\* sustained duration is reached, between the two calls.
C27_RepeatedDecideIdentical ==
    [][DecideAgain =>
          /\ lastScaleTime' = lastScaleTime
          /\ (decision.Timestamp # NoTime /\ ~recorded
                => SameDecision(decision', decision))]_vars

\* C27 amended: Decide leaves lastScaleTime alone, and the second of two such
\* calls returns the same decision when the clock stands, at both calls, on
\* the same side of the cooldown's end and of the two sustained durations.
C27_RepeatedDecideIdenticalSameClockSide ==
    [][DecideAgain =>
          /\ lastScaleTime' = lastScaleTime
          /\ (decision.Timestamp # NoTime /\ ~recorded
                /\ ClockSide(decision.Timestamp) = ClockSide(now)
                => SameDecision(decision', decision))]_vars

\* C27: a scale-up decision repeated at a later time, after the cooldown of a
\* recorded scaling had ended before the first of the two calls.
C27_Witness ==
    /\ prev.d.Timestamp # NoTime
    /\ ~prev.recorded
    /\ prev.d.Timestamp < decision.Timestamp
    /\ lastScaleTime # NoTime
    /\ lastScaleTime + CooldownPeriod <= prev.d.Timestamp
    /\ decision.Action = ActionScaleUp
    /\ ~decision.IsEmergency
    /\ SameDecision(prev.d, decision)
    /\ ~recorded

\* The place of a server state on Provisioning, Active, Draining, Terminated.
Rank(st) ==
    CASE st = ServerStateProvisioning -> 1
      [] st = ServerStateActive -> 2
      [] st = ServerStateDraining -> 3
      [] st = ServerStateTerminated -> 4

\* C28: under any interleaving of ScaleUp, ScaleDown, InitializeCluster and
\* the provisioning and termination goroutines, no server is dropped from the
\* registry, a server that changes state moves to the next state along
\* Provisioning, Active, Draining, Terminated, and a server put into Draining
\* was Active.
C28_ServerStatesMoveForward ==
    [][/\ Len(servers') >= Len(servers)
       /\ \A i \in 1..Len(servers) :
            /\ Rank(servers'[i]) >= Rank(servers[i])
            /\ (servers'[i] # servers[i] => Rank(servers'[i]) = Rank(servers[i]) + 1)
            /\ (servers'[i] = ServerStateDraining /\ servers[i] # ServerStateDraining
                    => servers[i] = ServerStateActive)]_vars

\* C28: servers in all four states at once, one of them put into Draining by
\* a ScaleDown call that still holds the lock with another server to drain,
\* while a provisioning goroutine is pending.
C28_Witness ==
    /\ sdown.held
    /\ sdown.picked # <<>>
    /\ servers[Head(sdown.picked)] = ServerStateActive
    /\ \E i, j, k \in 1..Len(servers) :
          /\ servers[i] = ServerStateTerminated
          /\ servers[j] = ServerStateDraining /\ <<"terminate", j>> \in tasks
          /\ servers[k] = ServerStateProvisioning /\ <<"provision", k>> \in tasks

\* C29: with CPULowThreshold < CPUHighThreshold, the tracker's high and low
\* start times are never both set after an Update, and no analyzed sample
\* carries both SustainedHighAt and SustainedLowAt.
C29_HighAndLowNeverBothSet ==
    CPULowThreshold < CPUHighThreshold =>
        /\ ~(tracker.high # NoTime /\ tracker.low # NoTime)
        /\ ~(analyzed.SustainedHighAt # NoTime /\ analyzed.SustainedLowAt # NoTime)

\* C29: the low timer started by a sample that came right after a sample at
\* or above the high threshold, whose high timer is cleared.
C29_Witness ==
    /\ Len(history) >= 2
    /\ history[Len(history) - 1].avgCPU >= CPUHighThreshold
    /\ history[Len(history)].avgCPU <= CPULowThreshold
    /\ tracker.low = history[Len(history)].timestamp
    /\ tracker.high = NoTime
    /\ analyzed.SustainedLowAt = tracker.low
    /\ analyzed.SustainedHighAt = NoTime

\* What C30 names of a cluster's pipeline: its breaker, its analyzer history,
\* its tracker's timers and its lastScaleTime.
PipelineOf(f, c) ==
    [breaker |-> f.breakers[collectorOf(c)], history |-> f.pipes[c].history,
     tracker |-> f.pipes[c].tracker, lastScaleTime |-> f.pipes[c].lastScaleTime]

\* C30: a cycle of one cluster's pipeline, whether its collect fails, its
\* breaker opens, it records a scaling or its sustained timers change, leaves
\* the other cluster's breaker, analyzer history, tracker timers and
\* lastScaleTime as they were; and a cluster's collect is rejected only after
\* MaxFailures failed collects of its own.
C30_PipelinesIsolated ==
    /\ [](\A c \in ClusterIds :
            fleet.pipes[c].rejected => fleet.pipes[c].failed >= MaxFailures)
    /\ [][\A c \in ClusterIds :
            fleet'.pipes[c] # fleet.pipes[c] =>
                \A o \in ClusterIds \ {c} :
                    PipelineOf(fleet', o) = PipelineOf(fleet, o)]_vars

\* C30: cluster A's breaker is open after its collects failed and A's next
\* collect was rejected, while cluster B has collected twice, recorded a
\* scaling and started a sustained-high timer, with its breaker closed and no
\* failure counted.
C30_Witness ==
    /\ fleet.breakers[collectorOf(ClusterA)].state = StateOpen
    /\ fleet.pipes[ClusterA].failed = MaxFailures
    /\ fleet.pipes[ClusterA].rejected
    /\ fleet.breakers[collectorOf(ClusterB)].state = StateClosed
    /\ fleet.breakers[collectorOf(ClusterB)].failures = 0
    /\ fleet.pipes[ClusterB].cycles >= 2
    /\ ~fleet.pipes[ClusterB].rejected
    /\ fleet.pipes[ClusterB].lastScaleTime # NoTime
    /\ fleet.pipes[ClusterB].tracker.high # NoTime
    /\ Len(fleet.pipes[ClusterB].history) >= 2

\* C31: in a cycle that executes a scale operation, scaling_started is
\* followed by scaling_complete of the same cycle, and a cycle whose scaler
\* call failed publishes scaling_failed with no scaling_started. execute
\* publishes scaling_started before it calls the scaler, so a failed call
\* leaves scaling_started followed by scaling_failed.
C31_StartedIsFollowedByComplete ==
    pc = "wait" =>
        /\ \A i \in 1..Len(cycleEvents) :
              cycleEvents[i] = EventTypeScalingStarted =>
                  \E j \in (i + 1)..Len(cycleEvents) :
                      cycleEvents[j] = EventTypeScalingComplete
        /\ (\E i \in 1..Len(cycleEvents) : cycleEvents[i] = EventTypeScalingFailed)
              => \A i \in 1..Len(cycleEvents) : cycleEvents[i] # EventTypeScalingStarted

\* C32: Analyze on metrics with an empty server list returns serverCount 0,
\* every numeric aggregate 0, no spike, a stable trend, and the status normal
\* for both the CPU and the memory. The analyzed metrics of a cycle are the
\* ones Analyze returned, with the sustained times filled in by the tracker.
C32_EmptySampleIsNormal ==
    (pc = "wait" /\ (\E i \in 1..Len(cycleEvents) : cycleEvents[i] = EventTypeMetricAnalyzed)
                 /\ analyzed.ServerCount = 0) =>
        /\ analyzed.AvgCPU = 0
        /\ analyzed.AvgMemory = 0
        /\ analyzed.HasSpike = FALSE
        /\ analyzed.Trend = TrendStable
        /\ analyzed.CPUStatus = ThresholdNormal
        /\ analyzed.MemoryStatus = ThresholdNormal

\* A step of the pipeline in which runCycle analysed a sample and so called
\* SustainedTracker.Update.
TrackerUpdated ==
    /\ \/ pc = "cycle" /\ pc' # "cycle"
       \/ pc = "wait" /\ tickReady /\ ~tickReady'
    /\ \E i \in 1..Len(cycleEvents') : cycleEvents'[i] = EventTypeMetricAnalyzed

\* What C33 says one Update does to one start time, given whether the sample is
\* on the timer's side of its threshold.
RunStart(start, onSide) ==
    IF onSide THEN (IF start = NoTime THEN now ELSE start) ELSE NoTime

\* C33: over any sequence of samples, highStart is set at the first sample with
\* avgCpu >= cpuHigh, left unchanged by each further consecutive such sample and
\* cleared by any sample below cpuHigh, so sustainedHighAt is the time of the
\* first sample of the current uninterrupted high run; lowStart does the same
\* with avgCpu <= cpuLow.
C33_StartTimesFollowRuns ==
    /\ [](tracker.high # NoTime =>
            \E i \in 1..Len(history) :
                /\ history[i].timestamp = tracker.high
                /\ \A j \in i..Len(history) : history[j].avgCPU >= CPUHighThreshold)
    /\ [][TrackerUpdated =>
            /\ tracker'.high = RunStart(tracker.high, analyzed'.AvgCPU >= CPUHighThreshold)
            /\ tracker'.low = RunStart(tracker.low, analyzed'.AvgCPU <= CPULowThreshold)
            /\ analyzed'.SustainedHighAt = tracker'.high
            /\ analyzed'.SustainedLowAt = tracker'.low]_vars

\* C33: the second sample of a high run at a later time than the first, with
\* the high start still at the first sample's time.
C33_Witness ==
    /\ Len(history) >= 2
    /\ history[Len(history) - 1].avgCPU >= CPUHighThreshold
    /\ history[Len(history)].avgCPU >= CPUHighThreshold
    /\ history[Len(history) - 1].timestamp < history[Len(history)].timestamp
    /\ tracker.high # NoTime
    /\ tracker.high < history[Len(history)].timestamp
    /\ analyzed.SustainedHighAt = tracker.high

\* C34: after any sequence of Analyze calls each cluster's history holds at
\* most maxHistoryLength snapshots in arrival order; a snapshot added to a full
\* history evicts exactly the oldest one, and the histories of the other
\* clusters are untouched.
C34_HistoryIsBoundedWindow ==
    /\ [](\A c \in ClusterIds :
            /\ Len(histories[c]) <= MaxHistoryLength
            /\ Len(histories[c]) = IF arrivals[c] < MaxHistoryLength THEN arrivals[c]
                                   ELSE MaxHistoryLength
            /\ \A i \in 1..Len(histories[c]) :
                  histories[c][i].timestamp = arrivals[c] - Len(histories[c]) + i - 1)
    /\ [][\A c \in ClusterIds :
            arrivals'[c] # arrivals[c] =>
                /\ \A o \in ClusterIds \ {c} : histories'[o] = histories[o]
                /\ LET added == histories'[c][Len(histories'[c])]
                   IN  histories'[c] =
                           IF Len(histories[c]) = MaxHistoryLength
                           THEN Append(Tail(histories[c]), added)
                           ELSE Append(histories[c], added)]_vars

\* C34: a full history that has evicted its oldest snapshots, next to another
\* cluster's history that still holds every snapshot it was given.
C34_Witness ==
    /\ arrivals[ClusterA] = MaxHistoryLength + 2
    /\ Len(histories[ClusterA]) = MaxHistoryLength
    /\ histories[ClusterA][1].timestamp = 2
    /\ histories[ClusterA][MaxHistoryLength].timestamp = MaxHistoryLength + 1
    /\ Len(histories[ClusterB]) = 3
    /\ histories[ClusterB][1].timestamp = 0

\* C35: in every reachable state of the breaker, under any interleaving of
\* concurrent Execute calls and Reset: Closed has 0 <= failures < maxFailures
\* and successes = 0; Open has failures = 0 and successes = 0; Half-Open has
\* failures = 0 and 0 <= successes < halfOpenMax.
C35_CountersWithinState ==
    /\ cb.state \in {StateClosed, StateOpen, StateHalfOpen}
    /\ cb.state = StateClosed =>
          cb.failures >= 0 /\ cb.failures < MaxFailures /\ cb.successes = 0
    /\ cb.state = StateOpen => cb.failures = 0 /\ cb.successes = 0
    /\ cb.state = StateHalfOpen =>
          cb.failures = 0 /\ cb.successes >= 0 /\ cb.successes < HalfOpenMax

\* C35: a Half-Open breaker that has just counted a success while another
\* caller's Execute is still running fn.
C35_Witness ==
    /\ cb.state = StateHalfOpen
    /\ cb.successes = HalfOpenMax - 1
    /\ cb.successes > 0
    /\ cbLast.op = "success"
    /\ \E c \in Callers : calls[c].pc = "running"

\* C36: a failing call that completes while the breaker is Open (it was
\* admitted before the breaker opened) sets lastFailTime to the time of that
\* failure and leaves the state Open with both counters cleared, and an
\* admission from Open comes only when more than the timeout has passed since
\* lastFailTime, the latest recorded failure.
C36_LateFailureRestartsOpenPeriod ==
    /\ (cbLast.op = "failure" /\ cbLast.from = StateOpen =>
            /\ cb.state = StateOpen
            /\ cb.lastFailTime = cbLast.at
            /\ cb.failures = 0
            /\ cb.successes = 0)
    /\ (cbLast.op = "admit" /\ cbLast.from = StateOpen => cbLast.since > Timeout)
    /\ (cbLast.op = "reject" => cbLast.from = StateOpen /\ cbLast.since <= Timeout)

\* C36: a failure recorded in Open at a later time than the start of the run,
\* by a caller whose Execute has returned the error.
C36_Witness ==
    /\ cbLast.op = "failure"
    /\ cbLast.from = StateOpen
    /\ cb.state = StateOpen
    /\ cbLast.at > 0
    /\ cb.lastFailTime = now
    /\ calls[cbLast.caller].result = "err"

\* C37: a Collect whose context is done before the first attempt or between
\* attempts returns the context error and is recorded by the breaker as one
\* failure; MaxFailures such collects in a row open the breaker though the
\* wrapped collector has never returned an error.
C37_AbortedCollectCountsAsFailure ==
    /\ (calls[Loop].result = "err" /\ attempts < RetryAttempts) =>
          /\ cbLast.op = "failure"
          /\ outcomes = 1
          /\ cb.lastFailTime = cbLast.at
          /\ cycleEvents = <<EventTypeError>>
          /\ cbLast.from = StateClosed => (cb.state = StateOpen <=> streak = MaxFailures)
          /\ cbLast.from = StateHalfOpen => cb.state = StateOpen
    /\ (~collectorFailed /\ cbLast.op = "failure" /\ cbLast.from = StateClosed
            /\ streak = MaxFailures) => cb.state = StateOpen

\* C37: the breaker opened by MaxFailures collects that were aborted before
\* their first attempt, the wrapped collector never having returned an error.
C37_Witness ==
    /\ ~collectorFailed
    /\ calls[Loop].result = "err"
    /\ attempts = 0
    /\ cbLast.op = "failure"
    /\ cbLast.from = StateClosed
    /\ streak = MaxFailures
    /\ cb.state = StateOpen

\* C38: Pipeline.Stop is terminal for the loop: after Stop has cancelled the
\* context, a loop started by a later Start runs one cycle and then exits, so
\* no periodic cycle runs again on that Pipeline object. A loop started after
\* the one before it has exited is such a loop; it takes no tick.
C38_NoTickAfterStop ==
    [][\A p \in PipelineIds : \A l \in 2..Len(loops[p]) :
          (objs[p].cancelled /\ loops[p][l - 1] = "exited") =>
              ~(loops[p][l] = "select" /\ loops'[p][l] = "cycle")]_vars

\* C38, as the code has it: the context a Stop has cancelled stays cancelled.
\* A later Start sets running and starts a new loop, which enters its first
\* cycle whatever the context; at every select it reaches it can return, and
\* returns unless the select takes a tick that is ready as well; once it has
\* returned it stays so, and running is changed by no loop.
C38_StopCancelsForGood ==
    /\ [](\A p \in PipelineIds : \A l \in 1..Len(loops[p]) :
            (objs[p].cancelled /\ loops[p][l] = "select") => ENABLED LoopExit(p, l))
    /\ [][\A p \in PipelineIds :
            /\ objs[p].cancelled => objs'[p].cancelled
            /\ (~objs[p].running /\ objs'[p].running) =>
                  /\ Len(loops'[p]) = Len(loops[p]) + 1
                  /\ loops'[p][Len(loops'[p])] = "start"
            /\ \A l \in 1..Len(loops[p]) :
                  /\ (loops[p][l] = "start" /\ loops'[p][l] # "start") =>
                        loops'[p][l] = "cycle"
                  /\ loops[p][l] = "exited" => loops'[p][l] = "exited"
                  /\ loops'[p][l] # loops[p][l] => objs'[p].running = objs[p].running]_vars

\* C38: a pipeline started again after a Stop: its new loop has run and
\* returned, no loop is left, no Stop is under way, and running is true.
C38_Witness ==
    \E p \in PipelineIds :
        /\ objs[p].cancelled
        /\ objs[p].running
        /\ Len(loops[p]) = 2
        /\ LoopsLeft(p) = {}
        /\ \A g \in Goroutines : thr[g] = Idle

\* C39: a channel obtained from Subscribe or SubscribeAll after Close is never
\* closed and never receives an event, so a consumer waiting on it blocks
\* forever: no receive on it can ever complete.
C39_LateChannelStaysSilent ==
    \A c \in DOMAIN chans :
        ~chans[c].beforeClose =>
            /\ chans[c].closes = 0
            /\ chans[c].buf = <<>>
            /\ chans[c].got = <<>>
            /\ ~ENABLED Receive(c)

\* C39: a channel made after Close is registered under an event type, and
\* every publish of the run has been made and has returned.
C39_Witness ==
    /\ busClosed
    /\ nextEvent = MaxEvents + 1
    /\ \A p \in Publishers : pubs[p].pc = "idle"
    /\ \E c \in DOMAIN chans :
          /\ ~chans[c].beforeClose
          /\ \E t \in allEventTypes : \E i \in DOMAIN subscribers[t] : subscribers[t][i] = c

\* C40: a successfully collected sample with an empty server list is processed
\* as avgCpu = 0: the tracker clears highStart and starts or keeps lowStart, and
\* the cycle still reaches Decide, which returns ScaleDown once lowStart is at
\* least SustainedLowDuration old, activeServers > MinServers and no cooldown
\* is active.
C40_EmptySampleScalesDown ==
    [][(TrackerUpdated /\ analyzed'.ServerCount = 0) =>
          /\ analyzed'.AvgCPU = 0
          /\ history' = history
          /\ tracker'.high = NoTime
          /\ tracker'.low = (IF tracker.low = NoTime THEN now ELSE tracker.low)
          /\ analyzed'.SustainedHighAt = NoTime
          /\ analyzed'.SustainedLowAt = tracker'.low
          /\ \E i \in 1..Len(cycleEvents') : cycleEvents'[i] = EventTypeDecisionMade
          /\ (/\ now - tracker'.low >= SustainedLowDuration
              /\ cstate'.ActiveServers > MinServers
              /\ (lastScaleTime = NoTime \/ now - lastScaleTime >= CooldownPeriod)) =>
                /\ decision'.Action = ActionScaleDown
                /\ decision'.Reason = "sustained_low_cpu"
                /\ decision'.TargetServers = cstate'.ActiveServers - 1
                /\ pc' = "execute"]_vars

\* C40: the cycle of an empty sample has decided to scale down a cluster above
\* its minimum, its low timer SustainedLowDuration old.
C40_Witness ==
    /\ pc = "execute"
    /\ \E i \in 1..Len(cycleEvents) : cycleEvents[i] = EventTypeMetricAnalyzed
    /\ analyzed.ServerCount = 0
    /\ tracker.high = NoTime
    /\ tracker.low # NoTime
    /\ decision.Timestamp - tracker.low >= SustainedLowDuration
    /\ cstate.ActiveServers > MinServers
    /\ decision.Action = ActionScaleDown
    /\ decision.Reason = "sustained_low_cpu"

====
